---- MODULE Spec2Model ----
(***************************************************************************)
(* A model of the BERDL JupyterHub spawn-lifecycle code:                   *)
(*   berdlhub/api_utils/governance_utils.py  (GovernanceUtils)             *)
(*   berdlhub/api_utils/spark_utils.py       (SparkClusterManager)         *)
(*   berdlhub/config/hooks.py                (pre_spawn_hook, ...)         *)
(*   berdlhub/config/spark_connect_service.py (the notebook Service)       *)
(*   berdlhub/auth/kb_auth.py                (KBaseAuth.validate_token)    *)
(*                                                                         *)
(* Python values are represented as follows.                               *)
(*   - a dict is a function whose DOMAIN is the set of keys present;       *)
(*   - a str that the code only stores, compares or tests for truth is a   *)
(*     TLA+ string; a str that the code inspects character by character    *)
(*     (lower(), replace()) is a tuple of one-character strings;           *)
(*   - a text produced by json.dumps is a tuple of tokens: every brace is  *)
(*     a token of its own, every other token is brace-free;                *)
(*   - None is the value None below;                                       *)
(*   - a raised exception is a record [type, status, detail] where status  *)
(*     and detail are tuples of length 0 (not carried) or 1 (carried).     *)
(* Every handler is one action.  The variables calls and log hold what the *)
(* most recent handler invocation issued and logged; pre_environment holds *)
(* the pod environment as that invocation found it.                        *)
(***************************************************************************)
EXTENDS Integers, Sequences, FiniteSets, TLC

VARIABLES
    environment,      \* spawner.environment: the pod environment (dict)
    pre_environment,  \* spawner.environment when the last handler was entered
    os_environ,       \* os.environ of the hub process (dict)
    result,           \* how the last handler ended: [op, outcome, error, value]
    calls,            \* remote calls issued by the last handler, in order
    log,              \* log records emitted by the last handler, in order
    services,         \* the Service objects of the Kubernetes API server (dict)
    kbase_auth,       \* the KBaseAuth client: [full_roles, approved_roles]
    pod,              \* the pod manifest handed to the pod hooks: [env, tolerations, labels]
    binders           \* the calls of create_user_notebook_service under way, one
                      \* record [username, namespace, pc, exc] per caller

vars == <<environment, pre_environment, os_environ, result, calls, log,
          services, kbase_auth, pod, binders>>

-----------------------------------------------------------------------------
(* Bounds of the model *)

\* number of distinct non-empty credential strings the governance service may return
NumCreds == 1

\* a toleration string has at most this many comma-separated entries
MaxEntries == 2

-----------------------------------------------------------------------------
(* Python helpers *)

None == "<None>"

EmptyDict == [k \in {} |-> None]

\* dict.update(u): keys of u overwrite
Update(d, u) == u @@ d

\* dict.pop(k, None)
Pop(d, k) == [x \in (DOMAIN d) \ {k} |-> d[x]]

\* dict.get(k, default)
Get(d, k, default) == IF k \in DOMAIN d THEN d[k] ELSE default

\* an exception value
Exc(type, status, detail) == [type |-> type, status |-> status, detail |-> detail]

NoExc == Exc("none", <<>>, <<>>)

LogRec(level, event, cause) == [level |-> level, event |-> event, cause |-> cause]

\* the remote requests, as they appear in calls
GovernanceGet == "governance.GET /credentials/"
ClusterCreate == "cluster.POST /clusters"
ClusterDelete == "cluster.DELETE /clusters"
ServiceRead == "k8s.read_namespaced_service"
ServicePatch == "k8s.patch_namespaced_service"
ServiceCreate == "k8s.create_namespaced_service"
ServiceDelete == "k8s.delete_namespaced_service"

\* (mutant) a request that is sent again after it was sent
Issued_Twice(call) == <<call, call>>

\* one await of a client request: what it adds to calls
Issued(call) == <<call>>

-----------------------------------------------------------------------------
(* Text: json.dumps and str.replace on braces *)

\* the credential strings the governance service may hand out (non-empty)
CredPool == <<"k{1}", "key2", "key3">>

\* the tokens of a string: braces alone, brace-free runs whole
Tok(s) ==
    IF s = "" THEN <<>>
    ELSE IF s = "k{1}" THEN <<"k", "{", "1", "}">>
    ELSE <<s>>

\* json.dumps of a str
JsonStr(s) == <<"\"">> \o Tok(s) \o <<"\"">>

\* json.dumps of creds_data / error_creds (dict with five keys, insertion order)
JsonDumps(d) ==
    <<"{", "\"access_key\": ">> \o JsonStr(d.access_key)
    \o <<", \"secret_key\": ">> \o JsonStr(d.secret_key)
    \o <<", \"endpoint\": ">> \o JsonStr(d.endpoint)
    \o <<", \"secure\": ", (IF d.secure THEN "true" ELSE "false")>>
    \o <<", \"error\": ">> \o (IF d.error = None THEN <<"null">> ELSE JsonStr(d.error))
    \o <<"}">>

\* str.replace(old, new) for a one-character old
RECURSIVE Replace(_, _, _)
Replace(text, old, new) ==
    IF text = <<>> THEN <<>>
    ELSE (IF Head(text) = old THEN new ELSE <<Head(text)>>) \o Replace(Tail(text), old, new)

\* (mutant) only the opening braces are doubled
EscapedJson_OpenOnly(d) == Replace(JsonDumps(d), "{", <<"{", "{">>)

\* json.dumps(d).replace("{", "{{").replace("}", "}}")
EscapedJson(d) == Replace(Replace(JsonDumps(d), "{", <<"{", "{">>), "}", <<"}", "}">>)

-----------------------------------------------------------------------------
(* The governance service as seen through httpx *)

GovStatuses == {200, 302, 500}

CredStrings == {""} \cup {CredPool[i] : i \in 1..NumCreds}

\* the JSON objects with any of the two keys present
CredObjects == UNION {[S -> CredStrings] : S \in SUBSET {"access_key", "secret_key"}}

GovBodies ==
    {[kind |-> "not_json"], [kind |-> "array"]}
    \cup {[kind |-> "object", fields |-> f] : f \in CredObjects}

\* the body of an answer that is not 200: an error page, or a full credential object
ErrorBodies ==
    {[kind |-> "not_json"],
     [kind |-> "object", fields |-> [access_key |-> CredPool[1], secret_key |-> CredPool[1]]]}

GovResponses ==
    {[kind |-> "error", exc |-> e] : e \in {"ConnectError", "ReadTimeout"}}
    \cup {[kind |-> "response", status |-> 200, body |-> b] : b \in GovBodies}
    \cup {[kind |-> "response", status |-> s, body |-> b] :
            s \in GovStatuses \ {200}, b \in ErrorBodies}

\* httpx Response.raise_for_status: raises unless the status is 2xx
RaiseForStatus(status) == ~(status >= 200 /\ status <= 299)

FixedErrorMessage == "Failed to retrieve MinIO credentials. Please contact an administrator."

\* (mutant) a handler that catches the transport's errors only
CaughtOnlyHttpErrors == {"ConnectError", "ReadTimeout", "HTTPStatusError"}

\* the exception types the handler `except Exception` catches
CaughtByExceptException ==
    {"KeyError", "TypeError", "ConnectError", "ReadTimeout", "HTTPStatusError", "JSONDecodeError"}

\* (mutant) the marker is left in place
ClearErrorMarker_Kept(env) == env

\* spawner.environment.pop("MINIO_CONFIG_ERROR", None)
ClearErrorMarker(env) == Pop(env, "MINIO_CONFIG_ERROR")

\* the try block of set_governance_credentials: the exception it ends with
\* (NoExc when it runs to its end), the environment it leaves, its calls and log
GovTry(env, osenv, resp) ==
    LET stop(type, c) == [exc |-> Exc(type, <<>>, <<>>), environment |-> env, calls |-> c, log |-> <<>>]
        get == Issued(GovernanceGet)
    IN  IF "GOVERNANCE_API_URL" \notin DOMAIN osenv THEN stop("KeyError", <<>>)
        ELSE IF "MINIO_ENDPOINT_URL" \notin DOMAIN osenv THEN stop("KeyError", <<>>)
        ELSE IF resp.kind = "error" THEN stop(resp.exc, get)
        ELSE IF RaiseForStatus(resp.status) THEN stop("HTTPStatusError", get)
        ELSE IF resp.body.kind = "not_json" THEN stop("JSONDecodeError", get)
        ELSE IF resp.body.kind = "array" THEN stop("TypeError", get)
        ELSE IF "access_key" \notin DOMAIN resp.body.fields THEN stop("KeyError", get)
        ELSE IF "secret_key" \notin DOMAIN resp.body.fields THEN stop("KeyError", get)
        ELSE
            LET creds == resp.body.fields
                minio_endpoint == osenv["MINIO_ENDPOINT_URL"]
                minio_secure == Get(osenv, "MINIO_SECURE_FLAG", "True")
                env1 == Update(env,
                            [MINIO_ACCESS_KEY |-> creds["access_key"],
                             MINIO_SECRET_KEY |-> creds["secret_key"],
                             MINIO_ENDPOINT |-> minio_endpoint,
                             MINIO_SECURE |-> minio_secure])
                env2 == ClearErrorMarker(env1)
                creds_data == [access_key |-> creds["access_key"],
                               secret_key |-> creds["secret_key"],
                               endpoint |-> minio_endpoint,
                               secure |-> (minio_secure = "True"),
                               error |-> None]
                env3 == Update(env2, [MINIO_CREDS_JSON |-> EscapedJson(creds_data)])
            IN  [exc |-> NoExc, environment |-> env3, calls |-> get,
                 log |-> <<LogRec("info", "Successfully set MinIO credentials", "none")>>]

\* the except branch of set_governance_credentials
GovExcept(env, exc) ==
    LET env1 == Update(env,
                    [MINIO_ACCESS_KEY |-> "",
                     MINIO_SECRET_KEY |-> "",
                     MINIO_ENDPOINT |-> "",
                     MINIO_SECURE |-> "False",
                     MINIO_CONFIG_ERROR |-> FixedErrorMessage])
        error_creds == [access_key |-> "", secret_key |-> "", endpoint |-> "",
                        secure |-> FALSE, error |-> FixedErrorMessage]
    IN  [environment |-> Update(env1, [MINIO_CREDS_JSON |-> EscapedJson(error_creds)]),
         log |-> <<LogRec("error", "Failed to get governance credentials", exc.type)>>]

\* GovernanceUtils(token).set_governance_credentials(spawner):
\* [exc, environment, calls, log]; exc is what reaches the caller
set_governance_credentials(env, osenv, resp) ==
    LET t == GovTry(env, osenv, resp)
    IN  IF t.exc = NoExc THEN t
        ELSE IF t.exc.type \in CaughtByExceptException
        THEN LET h == GovExcept(t.environment, t.exc)
             IN  [exc |-> NoExc, environment |-> h.environment, calls |-> t.calls,
                  log |-> t.log \o h.log]
        ELSE t

-----------------------------------------------------------------------------
(* Strings the code inspects character by character *)

UpperToLower ==
    "A" :> "a" @@ "B" :> "b" @@ "C" :> "c" @@ "D" :> "d" @@ "E" :> "e" @@ "F" :> "f" @@
    "G" :> "g" @@ "H" :> "h" @@ "I" :> "i" @@ "J" :> "j" @@ "K" :> "k" @@ "L" :> "l" @@
    "M" :> "m" @@ "N" :> "n" @@ "O" :> "o" @@ "P" :> "p" @@ "Q" :> "q" @@ "R" :> "r" @@
    "S" :> "s" @@ "T" :> "t" @@ "U" :> "u" @@ "V" :> "v" @@ "W" :> "w" @@ "X" :> "x" @@
    "Y" :> "y" @@ "Z" :> "z"

\* str.lower()
Lower(s) == [i \in 1..Len(s) |-> IF s[i] \in DOMAIN UpperToLower THEN UpperToLower[s[i]] ELSE s[i]]

\* re.sub(r"-+", "-", s)
RECURSIVE CollapseDashes(_)
CollapseDashes(s) ==
    IF Len(s) < 2 THEN s
    ELSE IF s[1] = "-" /\ s[2] = "-" THEN CollapseDashes(Tail(s))
    ELSE <<s[1]>> \o CollapseDashes(Tail(s))

\* display names of configure_profiles, and selection keys
DN_SMALL == <<"S", "m", "a", "l", "l", " ", "S", "e", "r", "v", "e", "r", " ", "(", "2", "G", " ", "R", "A", "M", ",", " ", "1", " ", "C", "P", "U", ")">>

DN_MEDIUM == <<"M", "e", "d", "i", "u", "m", " ", "S", "e", "r", "v", "e", "r", " ", "(", "8", "G", " ", "R", "A", "M", ",", " ", "2", " ", "C", "P", "U", ")">>

DN_LARGE == <<"L", "a", "r", "g", "e", " ", "S", "e", "r", "v", "e", "r", " ", "(", "3", "2", "G", " ", "R", "A", "M", ",", " ", "4", " ", "C", "P", "U", ")">>

SLUG_SMALL == <<"s", "m", "a", "l", "l", "-", "s", "e", "r", "v", "e", "r", "-", "2", "g", "-", "r", "a", "m", "-", "1", "-", "c", "p", "u">>

SLUG_MEDIUM == <<"m", "e", "d", "i", "u", "m", "-", "s", "e", "r", "v", "e", "r", "-", "8", "g", "-", "r", "a", "m", "-", "2", "-", "c", "p", "u">>

SLUG_MYSTERY == <<"m", "y", "s", "t", "e", "r", "y", "-", "t", "i", "e", "r">>
-----------------------------------------------------------------------------
(* The Spark cluster manager client: SparkClusterManager *)

MasterUrl == "spark://master:7077"

CreateStatuses == {200, 201, 500}

\* Response.parsed of a create: <<>> when there is none, else <<[master_url]>>
CreateParsed == {<<>>} \cup {<<[master_url |-> u]>> : u \in {None, "", MasterUrl}}

CreateResponses ==
    {[kind |-> "error", exc |-> "ConnectError"]}
    \cup {[kind |-> "response", status |-> s, parsed |-> p, content |-> c] :
            s \in CreateStatuses, p \in CreateParsed, c \in {"", "body"}}

DeleteStatuses == {200, 204, 404, 500}

DeleteResponses ==
    {[kind |-> "error", exc |-> "ConnectError"]}
    \cup {[kind |-> "response", status |-> s, parsed |-> p, content |-> c] :
            s \in DeleteStatuses, p \in {None, "ClusterDeleteResponse"}, c \in {"", "body"}}

\* (mutant) a test for None that lets the empty string through
Truthy_NoneOnly(v) == v # None

\* Python truth of a str or None
Truthy(v) == v \notin {None, ""}

\* the keyword parameters SparkClusterManager.__init__ declares
InitKeywords == {"api_url", "user_options"}

\* SparkClusterManager(token, **kwargs): the exception type the construction
\* ends with, "none" when the manager is built
SparkClusterManagerInit(kwargs, osenv) ==
    IF ~(kwargs \subseteq InitKeywords) THEN "TypeError"
    ELSE IF "api_url" \notin kwargs /\ "SPARK_CLUSTER_MANAGER_API_URL" \notin DOMAIN osenv
    THEN "KeyError"
    ELSE "none"

\* _raise_api_error(response, operation)
raise_api_error(resp) ==
    [exc |-> Exc("SparkClusterError", <<resp.status>>,
                 IF resp.content # "" THEN <<resp.content>> ELSE <<>>),
     log |-> <<LogRec("error", "Cluster creation failed", "SparkClusterError")>>]

\* create_cluster(): [exc, parsed, calls, log]
create_cluster(resp) ==
    LET post == Issued(ClusterCreate)
    IN  IF resp.kind = "error"
        THEN [exc |-> Exc(resp.exc, <<>>, <<>>), parsed |-> <<>>, calls |-> post, log |-> <<>>]
        ELSE IF resp.status = 201 /\ resp.parsed # <<>>
        THEN [exc |-> NoExc, parsed |-> resp.parsed, calls |-> post,
              log |-> <<LogRec("info", "Spark cluster created successfully", "none"),
                        LogRec("info", "Master URL", "none")>>]
        ELSE LET r == raise_api_error(resp)
             IN  [exc |-> r.exc, parsed |-> <<>>, calls |-> post, log |-> r.log]

\* (mutant) a failed start drops the address an earlier spawn left
start_spark_cluster_DropsAddress(env, resp) ==
    LET c == create_cluster(resp)
    IN  IF c.exc = NoExc /\ Truthy(c.parsed[1].master_url)
        THEN [exc |-> NoExc,
              environment |-> Update(env, [SPARK_MASTER_URL |-> c.parsed[1].master_url]),
              calls |-> c.calls, value |-> c.parsed[1].master_url, log |-> c.log]
        ELSE [exc |-> Exc("SparkClusterError", <<>>, <<>>),
              environment |-> Pop(env, "SPARK_MASTER_URL"),
              calls |-> c.calls, value |-> None, log |-> c.log]

\* start_spark_cluster(spawner): [exc, environment, calls, log, value]
start_spark_cluster(env, resp) ==
    LET c == create_cluster(resp)
        entry == <<LogRec("info", "Creating Spark cluster", "none")>>
        fail(exc, l) ==
            [exc |-> exc, environment |-> env, calls |-> c.calls, value |-> None,
             log |-> entry \o l \o <<LogRec("error", "Error creating Spark cluster", exc.type)>>]
    IN  IF c.exc # NoExc THEN fail(c.exc, c.log)
        ELSE LET master_url == c.parsed[1].master_url
             IN  IF ~Truthy(master_url)
                 THEN fail(Exc("SparkClusterError", <<>>, <<"Master URL not found in response">>), c.log)
                 ELSE [exc |-> NoExc,
                       environment |-> Update(env, [SPARK_MASTER_URL |-> master_url]),
                       calls |-> c.calls, value |-> master_url,
                       log |-> entry \o c.log
                               \o <<LogRec("info", "Spark cluster created with master URL", "none")>>]

\* (mutant) 204 is not taken for a success
DeleteSucceeded_Only200(status) == status = 200

\* response.status_code in (200, 204)
DeleteSucceeded(status) == status \in {200, 204}

\* stop_spark_cluster(spawner): [exc, environment, calls, log, value]
stop_spark_cluster(env, resp) ==
    LET delete == Issued(ClusterDelete)
        entry == <<LogRec("info", "Deleting Spark cluster", "none")>>
        out(value, l) ==
            [exc |-> NoExc, environment |-> env, calls |-> delete, value |-> value,
             log |-> entry \o l]
    IN  IF resp.kind = "error"
        THEN IF resp.exc \in CaughtByExceptException
             THEN out(None, <<LogRec("error", "Error deleting Spark cluster", resp.exc)>>)
             ELSE [exc |-> Exc(resp.exc, <<>>, <<>>), environment |-> env, calls |-> delete,
                   value |-> None, log |-> entry]
        ELSE IF DeleteSucceeded(resp.status)
        THEN out(resp.parsed,
                 <<LogRec("info", "Spark cluster deleted successfully", "none")>>)
        ELSE out(None, <<LogRec("error", "Error deleting Spark cluster", "status")>>)

-----------------------------------------------------------------------------
(* hooks.py *)

\* spawner.user.get_auth_state(): None and {} are both the empty dict here
AuthStates ==
    {EmptyDict, [other |-> "x"], [kbase_token |-> ""], [kbase_token |-> "token"]}

\* (mutant) only a missing auth state is refused
get_auth_token_NoTokenCheck(auth_state) ==
    IF auth_state = EmptyDict
    THEN [exc |-> Exc("RuntimeError", <<>>, <<"KBase authentication state is missing.">>),
          token |-> None,
          log |-> <<LogRec("error", "KBase auth_state not found for user.", "none")>>]
    ELSE [exc |-> NoExc, token |-> Get(auth_state, "kbase_token", None), log |-> <<>>]

\* _get_auth_token(spawner): [exc, token, log]
get_auth_token(auth_state) ==
    IF auth_state = EmptyDict
    THEN [exc |-> Exc("RuntimeError", <<>>, <<"KBase authentication state is missing.">>),
          token |-> None,
          log |-> <<LogRec("error", "KBase auth_state not found for user.", "none")>>]
    ELSE IF ~Truthy(Get(auth_state, "kbase_token", None))
    THEN [exc |-> Exc("RuntimeError", <<>>,
                      <<"KBase authentication token is missing from auth_state.">>),
          token |-> None,
          log |-> <<LogRec("error", "KBase token not found in auth_state.", "none")>>]
    ELSE [exc |-> NoExc, token |-> auth_state["kbase_token"], log |-> <<>>]

\* (mutant) the slug with runs of dashes left as they are
GeneratedSlug_RunsKept(display_name) ==
    Replace(Replace(Replace(Replace(Replace(Replace(Lower(display_name),
        " ", <<"-">>), "(", <<>>), ")", <<>>), ",", <<>>), "+", <<"-">>), ":", <<>>)

\* the slug _get_profile_environment generates from a display_name
GeneratedSlug(display_name) ==
    CollapseDashes(
        Replace(Replace(Replace(Replace(Replace(Replace(Lower(display_name),
            " ", <<"-">>), "(", <<>>), ")", <<>>), ",", <<>>), "+", <<"-">>), ":", <<>>))

\* the profile list of configure_profiles (no profile declares an environment)
ConfiguredProfiles ==
    << [display_name |-> DN_SMALL,
        kubespawner_override |-> [mem_limit |-> "2G"]],
       [display_name |-> DN_MEDIUM,
        kubespawner_override |-> [mem_limit |-> "8G"]],
       [display_name |-> DN_LARGE,
        kubespawner_override |-> [mem_limit |-> "32G"]] >>

\* a profile list whose profiles declare environment overrides
OverridingProfiles ==
    << [display_name |-> DN_SMALL,
        kubespawner_override |-> [mem_limit |-> "2G",
                                  environment |-> [PROFILE_TIER |-> "small"]]],
       [display_name |-> DN_MEDIUM,
        kubespawner_override |-> [mem_limit |-> "8G",
                                  environment |-> [PROFILE_TIER |-> "medium",
                                                   MINIO_SECURE |-> "profile",
                                                   KBASE_ORIGIN |-> "https://profile"]]] >>

\* (spawner.profile_list, spawner.user_options) of a spawn or stop request;
\* user_options is the empty dict or a dict with the key "profile"
ProfileSelections ==
    { <<<<>>, EmptyDict>>,
      <<ConfiguredProfiles, [profile |-> SLUG_MEDIUM]>>,
      <<OverridingProfiles, EmptyDict>>,
      <<OverridingProfiles, [profile |-> SLUG_MEDIUM]>>,
      <<OverridingProfiles, [profile |-> SLUG_MYSTERY]>> }

\* index of the first profile whose generated slug is the selection key, 0 if none
RECURSIVE FirstMatch(_, _, _)
FirstMatch(profile_list, profile_slug, i) ==
    IF i > Len(profile_list) THEN 0
    ELSE IF GeneratedSlug(profile_list[i].display_name) = profile_slug THEN i
    ELSE FirstMatch(profile_list, profile_slug, i + 1)

\* _get_profile_environment(spawner)
get_profile_environment(profile_list, user_options) ==
    IF profile_list = <<>> THEN EmptyDict
    ELSE LET m == IF "profile" \in DOMAIN user_options
                  THEN FirstMatch(profile_list, user_options["profile"], 1)
                  ELSE 0
             selected_profile == IF m = 0 THEN profile_list[1] ELSE profile_list[m]
         IN  IF "environment" \in DOMAIN selected_profile.kubespawner_override
             THEN selected_profile.kubespawner_override["environment"]
             ELSE EmptyDict

\* (mutant) the flag compared without lower()
SkipSpawnHooks_CaseSensitive(osenv) == osenv["BERDL_SKIP_SPAWN_HOOKS"] = <<"t", "r", "u", "e">>

\* os.environ["BERDL_SKIP_SPAWN_HOOKS"].lower() == "true"
SkipSpawnHooks(osenv) == Lower(osenv["BERDL_SKIP_SPAWN_HOOKS"]) = <<"t", "r", "u", "e">>

\* {**spawner.environment, **profile_env}
merged_environment(env, profile_env) == profile_env @@ env

\* pre_spawn_hook(spawner): [exc, environment, calls, log]
pre_spawn_hook(env, osenv, auth_state, gov_resp, profile_list, user_options, create_resp) ==
    LET entry == <<LogRec("debug", "Pre-spawn hook called", "none")>>
        a == get_auth_token(auth_state)
        end(exc, e, c, l) == [exc |-> exc, environment |-> e, calls |-> c, log |-> entry \o l]
    IN  IF a.exc # NoExc THEN end(a.exc, env, <<>>, a.log)
        ELSE IF "BERDL_SKIP_SPAWN_HOOKS" \notin DOMAIN osenv
        THEN end(Exc("KeyError", <<>>, <<>>), env, <<>>, <<>>)
        ELSE IF SkipSpawnHooks(osenv)
        THEN end(NoExc, env, <<>>, <<LogRec("info", "Skipping pre-spawn hook", "none")>>)
        ELSE
            LET g == set_governance_credentials(env, osenv, gov_resp)
            IN  IF g.exc # NoExc THEN end(g.exc, g.environment, g.calls, g.log)
                ELSE
                LET profile_env == get_profile_environment(profile_list, user_options)
                    merged_env == merged_environment(g.environment, profile_env)
                    ctor == SparkClusterManagerInit({"environment"}, osenv)
                IN  IF ctor # "none"
                    THEN end(Exc(ctor, <<>>, <<>>), g.environment, g.calls, g.log)
                    ELSE LET s == start_spark_cluster(g.environment, create_resp)
                         IN  end(s.exc, s.environment, g.calls \o s.calls, g.log \o s.log)

\* post_stop_hook(spawner): [exc, environment, calls, log]
post_stop_hook(env, osenv, auth_state, profile_list, user_options, delete_resp) ==
    LET a == get_auth_token(auth_state)
        entry == <<LogRec("debug", "Post-stop hook called", "none")>>
        end(exc, c, l) == [exc |-> exc, environment |-> env, calls |-> c, log |-> l]
    IN  IF a.exc # NoExc THEN end(a.exc, <<>>, a.log)
        ELSE IF "BERDL_SKIP_SPAWN_HOOKS" \notin DOMAIN osenv
        THEN end(Exc("KeyError", <<>>, <<>>), <<>>, entry)
        ELSE IF SkipSpawnHooks(osenv)
        THEN end(NoExc, <<>>, entry \o <<LogRec("info", "Skipping post-stop hook", "none")>>)
        ELSE
            LET profile_env == get_profile_environment(profile_list, user_options)
                merged_env == merged_environment(env, profile_env)
                ctor == SparkClusterManagerInit({"environment"}, osenv)
            IN  IF ctor # "none" THEN end(Exc(ctor, <<>>, <<>>), <<>>, entry)
                ELSE LET s == stop_spark_cluster(env, delete_resp)
                     IN  end(s.exc, s.calls, entry \o s.log)

-----------------------------------------------------------------------------
(* hooks.py: modify_pod_hook and the toleration strings *)

Whitespace == {" ", "\t"}

\* (mutant) the entry taken as it stands
Strip_Nothing(s) == s

\* str.strip()
RECURSIVE Strip(_)
Strip(s) ==
    IF s = <<>> THEN s
    ELSE IF Head(s) \in Whitespace THEN Strip(Tail(s))
    ELSE IF s[Len(s)] \in Whitespace THEN Strip(SubSeq(s, 1, Len(s) - 1))
    ELSE s

\* str.find(c) + 1: the position of the first c in s, 0 when there is none
Find(s, c) ==
    IF \E i \in DOMAIN s : s[i] = c
    THEN CHOOSE i \in DOMAIN s : s[i] = c /\ \A j \in 1..(i - 1) : s[j] # c
    ELSE 0

\* str.split(sep): the list of the parts between the separators
RECURSIVE Split(_, _)
Split(s, sep) ==
    LET i == Find(s, sep)
    IN  IF i = 0 THEN <<s>>
        ELSE <<SubSeq(s, 1, i - 1)>> \o Split(SubSeq(s, i + 1, Len(s)), sep)

\* str.split(sep, 1): at most two parts
SplitOnce(s, sep) ==
    LET i == Find(s, sep)
    IN  IF i = 0 THEN <<s>> ELSE <<SubSeq(s, 1, i - 1), SubSeq(s, i + 1, Len(s))>>

\* client.V1Toleration(key=key, operator="Equal", value=value, effect=effect)
V1Toleration(key, value, effect) ==
    [key |-> key, operator |-> "Equal", value |-> value, effect |-> effect]

\* the body of the for loop of parse_tolerations_from_env for one part of the
\* split: the tolerations and the warnings it adds
ParseEntry(part) ==
    LET toleration_str == Strip(part)
        warning == [tolerations |-> <<>>,
                    log |-> <<LogRec("warning", "Invalid toleration format", toleration_str)>>]
    IN  IF toleration_str = <<>> THEN [tolerations |-> <<>>, log |-> <<>>]
        ELSE IF Find(toleration_str, ":") = 0 \/ Find(toleration_str, "=") = 0 THEN warning
        ELSE LET outer == SplitOnce(toleration_str, ":")
                 key_value == outer[1]
                 effect == outer[2]
                 inner == SplitOnce(key_value, "=")
             IN  IF Len(inner) # 2 THEN warning
                 ELSE [tolerations |-> <<V1Toleration(inner[1], inner[2], effect)>>,
                       log |-> <<>>]

RECURSIVE ParseEntries(_)
ParseEntries(parts) ==
    IF parts = <<>> THEN [tolerations |-> <<>>, log |-> <<>>]
    ELSE LET h == ParseEntry(Head(parts))
             t == ParseEntries(Tail(parts))
         IN  [tolerations |-> h.tolerations \o t.tolerations, log |-> h.log \o t.log]

\* parse_tolerations_from_env(tolerations_env, spawner): [tolerations, log]
parse_tolerations_from_env(tolerations_env) == ParseEntries(Split(tolerations_env, ","))

\* the names of the variables modify_pod_hook appends to the container
DownwardVariables ==
    <<"BERDL_POD_IP", "BERDL_POD_NAME", "BERDL_CPU_REQUEST", "BERDL_CPU_LIMIT",
      "BERDL_MEMORY_REQUEST", "BERDL_MEMORY_LIMIT">>

\* modify_pod_hook(spawner, pod): [pod, log]; pod.tolerations is <<>> for None
\* and <<list>> for a list
modify_pod_hook(p, osenv) ==
    LET p1 == [p EXCEPT !.env = @ \o DownwardVariables]
        tolerations_env == Get(osenv, "BERDL_TOLERATIONS", <<>>)
    IN  IF tolerations_env # <<>>
        THEN LET parsed == parse_tolerations_from_env(tolerations_env)
             IN  IF parsed.tolerations # <<>>
                 THEN [pod |-> [p1 EXCEPT !.tolerations = <<parsed.tolerations>>],
                       log |-> parsed.log]
                 ELSE [pod |-> p1, log |-> parsed.log]
        ELSE [pod |-> p1, log |-> <<>>]

-----------------------------------------------------------------------------
(* The notebook Service: spark_connect_service.py and the Kubernetes API *)

\* sanitized[:253]
K8S_NAME_LIMIT == 253

\* the characters of [a-z0-9]
LowerAlnum ==
    {UpperToLower[c] : c \in DOMAIN UpperToLower}
        \cup {"0", "1", "2", "3", "4", "5", "6", "7", "8", "9"}

\* re.sub(r"[^a-z0-9.-]", "-", s)
ReplaceInvalid(s) ==
    [i \in 1..Len(s) |-> IF s[i] \in LowerAlnum \cup {".", "-"} THEN s[i] ELSE "-"]

\* re.sub(r"^[^a-z0-9]+", "", s)
RECURSIVE StripLeading(_)
StripLeading(s) ==
    IF s = <<>> \/ Head(s) \in LowerAlnum THEN s ELSE StripLeading(Tail(s))

\* re.sub(r"[^a-z0-9]+$", "", s)
RECURSIVE StripTrailing(_)
StripTrailing(s) ==
    IF s = <<>> \/ s[Len(s)] \in LowerAlnum THEN s
    ELSE StripTrailing(SubSeq(s, 1, Len(s) - 1))

\* re.sub(r"-+", "-", s), by halves: each half collapsed, and one hyphen dropped
\* where a run crosses the middle
RECURSIVE CollapseHyphens(_)
CollapseHyphens(s) ==
    IF Len(s) < 2 THEN s
    ELSE LET h == Len(s) \div 2
             l == CollapseHyphens(SubSeq(s, 1, h))
             r == CollapseHyphens(SubSeq(s, h + 1, Len(s)))
         IN  IF l[Len(l)] = "-" /\ r[1] = "-" THEN l \o Tail(r) ELSE l \o r

\* s[:n]
Truncate(s, n) == IF Len(s) <= n THEN s ELSE SubSeq(s, 1, n)

\* sanitize_k8s_name(name)
sanitize_k8s_name(name) ==
    Truncate(CollapseHyphens(StripTrailing(StripLeading(ReplaceInvalid(Lower(name))))),
             K8S_NAME_LIMIT)

\* (mutant) the URL built from the user name as it is
get_spark_connect_url_RawName(username, namespace) ==
    <<"sc://", "jupyter-">> \o username \o <<".", namespace, ":15002">>

\* get_spark_connect_url(spawner): f"sc://jupyter-{sanitized_username}.{namespace}:15002"
get_spark_connect_url(username, namespace) ==
    <<"sc://", "jupyter-">> \o sanitize_k8s_name(username) \o <<".", namespace, ":15002">>

\* f"jupyter-{sanitized_username}"; the prefix is one token
ServiceName(username) == <<"jupyter-">> \o sanitize_k8s_name(username)

UsernameLabel == "hub.jupyter.org/username"

\* selector_labels of create_user_notebook_service
selector_labels(username) ==
    ("app" :> "berdl-notebook") @@ ("component" :> "singleuser-server")
        @@ (UsernameLabel :> username)

\* the V1Service body built for the user: spec.selector and the ports of spec.ports
DesiredService(username) ==
    [selector |-> selector_labels(username), ports |-> {8888, 15002}]

\* a call of the Kubernetes API with its arguments, as it appears in calls
K8sCall(api, namespace, name) == [api |-> api, namespace |-> namespace, name |-> name]

\* how the cluster answers one call: from its store, with an ApiException of
\* some status whatever the store holds, or with an exception that is no
\* ApiException (connection refused, timeout)
FromStore == [kind |-> "store", status |-> 0]

ApiFault(status) == [kind |-> "api_error", status |-> status]

OtherFault == [kind |-> "error", status |-> 0]

Answered(status) == [kind |-> "ok", status |-> status]

ReadFaults == {ApiFault(403), ApiFault(500), OtherFault}

WriteFaults == {ApiFault(500), OtherFault}

\* the behaviour of the cluster during one handler: config.load_incluster_config
\* succeeds or not, then the read (or the delete) and the write are answered
K8sBehaviours ==
    {[config |-> "ConfigException", read |-> FromStore, write |-> FromStore]}
    \cup {[config |-> "ok", read |-> r, write |-> FromStore] : r \in {FromStore} \cup ReadFaults}
    \cup {[config |-> "ok", read |-> FromStore, write |-> w] : w \in WriteFaults}

Healthy == [config |-> "ok", read |-> FromStore, write |-> FromStore]

\* the API server's answer to read_namespaced_service
ReadAnswer(svcs, key, how) ==
    IF how.kind # "store" THEN how
    ELSE IF key \in DOMAIN svcs THEN Answered(200) ELSE ApiFault(404)

\* the API server's answer to create_namespaced_service / patch_namespaced_service
WriteAnswer(api, svcs, key, how) ==
    IF how.kind # "store" THEN how
    ELSE IF api = ServiceCreate
         THEN (IF key \in DOMAIN svcs THEN ApiFault(409) ELSE Answered(201))
         ELSE (IF key \in DOMAIN svcs THEN Answered(200) ELSE ApiFault(404))

\* the API server's answer to delete_namespaced_service
DeleteAnswer(svcs, key, how) ==
    IF how.kind # "store" THEN how
    ELSE IF key \in DOMAIN svcs THEN Answered(200) ELSE ApiFault(404)

\* the store after an answered create or patch (the body replaces the object)
Written(svcs, key, body) == (key :> body) @@ svcs

\* the call made when the read found the Service
WriteOnFound_Create == ServiceCreate

WriteOnFound == ServicePatch

\* if e.status == 404 (in create_user_notebook_service)
ReadNotFound_AnyApiError(status) == TRUE

ReadNotFound(status) == status = 404

\* if e.status == 404 (in delete_user_notebook_service)
DeleteNotFound_Never(status) == FALSE

DeleteNotFound(status) == status = 404

\* create_user_notebook_service(spawner): the result is [exc, services, calls, log]
create_user_notebook_service(svcs, username, namespace, k8s) ==
    LET service_name == ServiceName(username)
        key == <<namespace, service_name>>
        body == DesiredService(username)
        call(api) == K8sCall(api, namespace, service_name)
        end(sv, c, l) == [exc |-> NoExc, services |-> sv, calls |-> c, log |-> l]
        \* except Exception as e: log, do not fail
        failed(c, cause) ==
            end(svcs, c, <<LogRec("error", "Failed to create/update Service", cause)>>)
        \* except ApiException as e: create on not-found, else re-raise
        api_error(c, status) ==
            IF ReadNotFound(status)
            THEN LET w == WriteAnswer(ServiceCreate, svcs, key, k8s.write)
                     c2 == c \o <<call(ServiceCreate)>>
                 IN  IF w.kind = "ok"
                     THEN end(Written(svcs, key, body), c2,
                              <<LogRec("info", "Created Service", "none"),
                                LogRec("info", "Jupyter address", "none"),
                                LogRec("info", "Spark Connect address", "none")>>)
                     ELSE failed(c2, IF w.kind = "api_error" THEN "ApiException" ELSE "Exception")
            ELSE failed(c, "ApiException")
    IN  IF k8s.config # "ok" THEN failed(<<>>, "ConfigException")
        ELSE LET r == ReadAnswer(svcs, key, k8s.read)
                 c1 == <<call(ServiceRead)>>
             IN  IF r.kind = "ok"
                 THEN LET w == WriteAnswer(WriteOnFound, svcs, key, k8s.write)
                          c2 == c1 \o <<call(WriteOnFound)>>
                      IN  IF w.kind = "ok"
                          THEN end(Written(svcs, key, body), c2,
                                   <<LogRec("info", "Updated Service", "none")>>)
                          ELSE IF w.kind = "api_error" THEN api_error(c2, w.status)
                          ELSE failed(c2, "Exception")
                 ELSE IF r.kind = "api_error" THEN api_error(c1, r.status)
                 ELSE failed(c1, "Exception")

\* (mutant) the exception logged and raised again
OuterExcept_Reraises(cause) ==
    [exc |-> Exc(cause, <<>>, <<>>),
     log |-> <<LogRec("error", "Failed to create/update Service", cause)>>]

\* except Exception as e, around the whole of create_user_notebook_service: the
\* exception, also one raised inside the ApiException handler, is logged and
\* not raised
OuterExcept(cause) ==
    [exc |-> NoExc, log |-> <<LogRec("error", "Failed to create/update Service", cause)>>]

\* delete_user_notebook_service(spawner)
delete_user_notebook_service(svcs, username, namespace, k8s) ==
    LET service_name == ServiceName(username)
        key == <<namespace, service_name>>
        end(sv, c, l) == [exc |-> NoExc, services |-> sv, calls |-> c, log |-> l]
    IN  IF k8s.config # "ok"
        THEN end(svcs, <<>>, <<LogRec("error", "Unexpected error deleting Service",
                                      "ConfigException")>>)
        ELSE LET d == DeleteAnswer(svcs, key, k8s.read)
                 c == <<K8sCall(ServiceDelete, namespace, service_name)>>
             IN  IF d.kind = "ok"
                 THEN end([k \in (DOMAIN svcs) \ {key} |-> svcs[k]], c,
                          <<LogRec("info", "Deleted Service", "none")>>)
                 ELSE IF d.kind = "api_error"
                 THEN (IF DeleteNotFound(d.status)
                       THEN end(svcs, c, <<LogRec("info", "Service already deleted", "none")>>)
                       ELSE end(svcs, c, <<LogRec("error", "Failed to delete Service",
                                                  "ApiException")>>))
                 ELSE end(svcs, c, <<LogRec("error", "Unexpected error deleting Service",
                                            "Exception")>>)

\* (mutant) the labels of the pod replaced by the three labels
ensure_pod_labels_for_service_Replaces(p, username) ==
    [p EXCEPT !.labels = <<selector_labels(username)>>]

\* ensure_pod_labels_for_service(spawner, pod): pod.metadata.labels is <<>> for
\* None and <<d>> for the dict d; update() lets the three labels win
ensure_pod_labels_for_service(p, username) ==
    LET labels == IF p.labels = <<>> \/ p.labels[1] = EmptyDict THEN EmptyDict ELSE p.labels[1]
    IN  [p EXCEPT !.labels =
            <<Update(labels,
                     ("app" :> "berdl-notebook") @@ ("component" :> "singleuser-server")
                         @@ (UsernameLabel :> username))>>]

-----------------------------------------------------------------------------
(* The KBase auth client: kb_auth.py *)

\* class AdminPermission(IntEnum)
AdminPermission == [NONE |-> 1, FULL |-> 10]

\* the requests of validate_token, as they appear in calls
TokenGet == "auth.GET api/V2/token"
MeGet == "auth.GET api/V2/me"

\* set(a_list)
SetOf(list) == {list[i] : i \in DOMAIN list}

\* the role names in the order sorted() gives them (upper case sorts first)
RoleOrder == <<"KBASE_ADMIN", "guest", "kbase_user", "researcher">>

\* sorted(a_set_of_roles)
Sorted(roles) == SelectSeq(RoleOrder, LAMBDA r : r \in roles)

\* KBaseAuth.__init__: set(roles) if roles else set()
KBaseAuthInit(full_admin_roles, approved_roles) ==
    [full_roles |-> IF full_admin_roles # <<>> THEN SetOf(full_admin_roles) ELSE {},
     approved_roles |-> IF approved_roles # <<>> THEN SetOf(approved_roles) ELSE {}]

\* the role lists a KBaseAuth is constructed with: <<full_admin_roles, approved_roles>>
AuthConfigs ==
    {<<<<"KBASE_ADMIN">>, <<"kbase_user">>>>,
     <<<<"KBASE_ADMIN">>, <<"kbase_user", "researcher">>>>,
     <<<<"KBASE_ADMIN">>, <<"kbase_user", "KBASE_ADMIN">>>>,
     <<<<"KBASE_ADMIN">>, <<>>>>}

\* an answer of the auth server: a response with a status and a body that is
\* JSON (obj is the decoded object) or not, or an exception of the transport
HttpResponse(status, is_json, obj) ==
    [kind |-> "response", status |-> status, json |-> is_json, obj |-> obj]

TransportException == [kind |-> "error", status |-> 0, json |-> FALSE, obj |-> EmptyDict]

\* the bodies of the answers that are not 200
AuthErrorObjects ==
    {[error |-> [appcode |-> 10020, message |-> "Invalid token"]],
     [error |-> [appcode |-> 10010, message |-> "No token"]],
     [error |-> [message |-> "Internal error"]],
     [error |-> [appcode |-> 30000]],
     [message |-> "not found"]}

AuthErrorResponses ==
    {HttpResponse(st, FALSE, EmptyDict) : st \in {401, 502}}
    \cup {HttpResponse(st, TRUE, o) : st \in {401, 500}, o \in AuthErrorObjects}

\* 200 answers of api/V2/token
TokenObjects ==
    {EmptyDict,
     [expires |-> 0],
     [expires |-> 86400500, mfa |-> "Used"],
     [mfa |-> "NotUsed"]}

TokenResponses ==
    {TransportException} \cup AuthErrorResponses
    \cup {HttpResponse(200, TRUE, o) : o \in TokenObjects}
    \cup {HttpResponse(200, FALSE, EmptyDict)}

\* the customroles lists of api/V2/me
RoleLists ==
    {<<>>, <<"guest">>, <<"researcher">>, <<"kbase_user">>, <<"KBASE_ADMIN">>,
     <<"KBASE_ADMIN", "kbase_user">>, <<"researcher", "guest", "researcher">>}

\* 200 answers of api/V2/me
MeObjects ==
    {EmptyDict, [user |-> "alice"]}
    \cup {[customroles |-> r] : r \in RoleLists}
    \cup {[user |-> u, customroles |-> r] : u \in {"", "alice", "bob"}, r \in RoleLists}

MeResponses ==
    {TransportException} \cup AuthErrorResponses
    \cup {HttpResponse(200, TRUE, o) : o \in MeObjects}

\* j["error"].get("appcode") == 10020
IsInvalidToken_Never(err) == FALSE

IsInvalidToken(err) == "appcode" \in DOMAIN err /\ err["appcode"] = 10020

\* _check_error(r): the exception raised, NoExc when the status is 200
check_error(r) ==
    IF r.status = 200 THEN NoExc
    ELSE IF ~r.json
    THEN Exc("IOError", <<>>, <<"Non-JSON response from KBase auth server, status code">>)
    ELSE IF "error" \notin DOMAIN r.obj THEN Exc("KeyError", <<>>, <<"error">>)
    ELSE IF IsInvalidToken(r.obj["error"])
    THEN Exc("InvalidTokenError", <<401>>, <<"KBase auth server reported token is invalid.">>)
    ELSE IF "message" \notin DOMAIN r.obj["error"] THEN Exc("KeyError", <<>>, <<"message">>)
    ELSE Exc("IOError", <<>>, <<"Error from KBase auth server", r.obj["error"]["message"]>>)

\* _get(url, headers) without _check_error and without the content type check
get_Unchecked(r) == [exc |-> NoExc, data |-> r.obj, log |-> <<>>]

\* _get(url, headers): [exc, data, log]
get(r) ==
    IF r.kind = "error"
    THEN [exc |-> Exc("ClientError", <<>>, <<>>), data |-> EmptyDict, log |-> <<>>]
    ELSE LET e == check_error(r)
         IN  IF e # NoExc
             THEN [exc |-> e, data |-> EmptyDict,
                   log |-> IF e.type = "IOError" /\ ~r.json
                           THEN <<LogRec("info", "Non-JSON response", "none")>> ELSE <<>>]
             ELSE IF ~r.json
             THEN [exc |-> Exc("ContentTypeError", <<>>, <<>>), data |-> EmptyDict, log |-> <<>>]
             ELSE [exc |-> NoExc, data |-> r.obj, log |-> <<>>]

\* datetime.fromtimestamp(expires_ms / 1000.0, tz=timezone.utc)
FromTimestampMs(expires_ms) ==
    [seconds |-> expires_ms \div 1000, microseconds |-> (expires_ms % 1000) * 1000]

\* if not (user_roles & self._approved_roles) is not taken
HasApprovedRole_OrFullAdmin(auth, user_roles) ==
    user_roles \cap (auth.approved_roles \cup auth.full_roles) # {}

HasApprovedRole(auth, user_roles) == user_roles \cap auth.approved_roles # {}

\* KBaseAuth._get_role(roles)
get_role_AgainstApproved(auth, roles) ==
    IF roles \cap auth.approved_roles # {} THEN AdminPermission.FULL ELSE AdminPermission.NONE

get_role(auth, roles) ==
    IF roles \cap auth.full_roles # {} THEN AdminPermission.FULL ELSE AdminPermission.NONE

\* the fixed text of the 403 message; the sorted approved roles follow it
AccessDenied == "Access denied. Your account requires one of the following roles"

\* KBaseUser(UserID(username), admin_perm, token, expires, mfa_status)
KBaseUser(user, admin_perm, token, expires, mfa_status) ==
    [user |-> user, admin_perm |-> admin_perm, token |-> token,
     expires |-> expires, mfa_status |-> mfa_status]

\* KBaseAuth.validate_token(token): [exc, value, calls, log].  _not_falsy(token,
\* "token") rejects an empty token with ValueError before any lookup.
validate_token(auth, token, token_resp, me_resp) ==
    LET end(exc, v, c, l) == [exc |-> exc, value |-> v, calls |-> c, log |-> l]
        t == get(token_resp)
        m == get(me_resp)
        both == <<TokenGet, MeGet>>
    IN  IF token = "" THEN end(Exc("ValueError", <<>>, <<"token is required">>), <<>>, <<>>, <<>>)
        ELSE IF t.exc # NoExc THEN end(t.exc, <<>>, <<TokenGet>>, t.log)
        ELSE IF m.exc # NoExc THEN end(m.exc, <<>>, both, m.log)
        ELSE
            LET token_data == t.data
                me_data == m.data
                expires == IF "expires" \in DOMAIN token_data /\ token_data["expires"] # 0
                           THEN <<FromTimestampMs(token_data["expires"])>>
                           ELSE <<>>
                user_roles == SetOf(Get(me_data, "customroles", <<>>))
            IN  IF ~HasApprovedRole(auth, user_roles)
                THEN end(Exc("AuthenticationError", <<403>>,
                             <<AccessDenied>> \o Sorted(auth.approved_roles)),
                         <<>>, both,
                         <<LogRec("info", "User does not have an approved role", "none")>>)
                ELSE LET admin_perm == get_role(auth, user_roles)
                         mfa_status == Get(token_data, "mfa", None)
                         username == Get(me_data, "user", None)
                     IN  IF username \in {None, ""}
                         THEN end(Exc("InvalidTokenError", <<401>>,
                                      <<"Invalid token response - missing username">>),
                                  <<>>, both, <<>>)
                         ELSE end(NoExc,
                                  <<KBaseUser(username, admin_perm, token, expires, mfa_status)>>,
                                  both, <<>>)

-----------------------------------------------------------------------------
(* Cluster sizing: ClusterDefaults and _build_cluster_config in spark_utils.py *)

\* ClusterDefaults(worker_count, worker_cores, worker_memory, master_cores, master_memory)
ClusterDefaults(worker_count, worker_cores, worker_memory, master_cores, master_memory) ==
    [worker_count |-> worker_count, worker_cores |-> worker_cores,
     worker_memory |-> worker_memory, master_cores |-> master_cores,
     master_memory |-> master_memory]

\* the defaults the dataclass declares for its fields
DeclaredDefaults == ClusterDefaults(2, 1, "10GiB", 1, "2GiB")

\* ClusterDefaults.PROFILES
PROFILES ==
    [small |-> ClusterDefaults(1, 1, "2GiB", 1, "1GiB"),
     medium |-> ClusterDefaults(4, 1, "8GiB", 1, "8GiB"),
     large |-> ClusterDefaults(4, 1, "32GiB", 1, "16GiB")]

\* the key from_profile falls back to
FallbackSlug_Large == "large"

FallbackSlug == "small"

\* profile_slug in cls.PROFILES
InProfiles_Always(profile_slug) == TRUE

InProfiles(profile_slug) == profile_slug \in DOMAIN PROFILES

\* ClusterDefaults.from_profile(profile_slug): [exc, value]
from_profile(profile_slug) ==
    LET slug == IF ~InProfiles(profile_slug) THEN FallbackSlug ELSE profile_slug
    IN  IF slug \notin DOMAIN PROFILES
        THEN [exc |-> Exc("KeyError", <<>>, <<slug>>), value |-> <<>>]
        ELSE [exc |-> NoExc, value |-> <<PROFILES[slug]>>]

DigitValue ==
    "0" :> 0 @@ "1" :> 1 @@ "2" :> 2 @@ "3" :> 3 @@ "4" :> 4 @@
    "5" :> 5 @@ "6" :> 6 @@ "7" :> 7 @@ "8" :> 8 @@ "9" :> 9

\* the value of a run of decimal digits
RECURSIVE DecimalValue(_)
DecimalValue(s) ==
    IF s = <<>> THEN 0 ELSE 10 * DecimalValue(SubSeq(s, 1, Len(s) - 1)) + DigitValue[s[Len(s)]]

\* int(v) for a str of characters: <<n>>, or <<>> where int raises ValueError
IntOf(v) ==
    IF v # <<>> /\ \A i \in DOMAIN v : v[i] \in DOMAIN DigitValue
    THEN <<DecimalValue(v)>> ELSE <<>>

\* user_options.get(name, default) passed to int(): the default is the int itself
IntSetting(options, name, default) ==
    IF name \in DOMAIN options THEN IntOf(options[name]) ELSE <<default>>

\* ClusterDefaults.from_environment(user_options): [exc, value]; user_options is
\* <<>> for None and <<d>> for the dict d
from_environment(user_options, osenv) ==
    LET options == IF user_options # <<>> /\ user_options[1] # EmptyDict
                   THEN user_options[1] ELSE osenv
        worker_count == IntSetting(options, "DEFAULT_WORKER_COUNT", 1)
        worker_cores == IntSetting(options, "DEFAULT_WORKER_CORES", 1)
        worker_memory == Get(options, "DEFAULT_WORKER_MEMORY", "2GiB")
        master_cores == IntSetting(options, "DEFAULT_MASTER_CORES", 1)
        master_memory == Get(options, "DEFAULT_MASTER_MEMORY", "1GiB")
    IN  IF worker_count = <<>> \/ worker_cores = <<>> \/ master_cores = <<>>
        THEN [exc |-> Exc("ValueError", <<>>, <<>>), value |-> <<>>]
        ELSE [exc |-> NoExc,
              value |-> <<ClusterDefaults(worker_count[1], worker_cores[1], worker_memory,
                                          master_cores[1], master_memory)>>]

\* the arguments of _build_cluster_config: an int argument is <<>> for None or
\* <<n>>, a str argument is None or the str
NoArguments ==
    [worker_count |-> <<>>, worker_cores |-> <<>>, worker_memory |-> None,
     master_cores |-> <<>>, master_memory |-> None]

ConfigArguments ==
    {NoArguments,
     [NoArguments EXCEPT !.worker_count = <<0>>, !.worker_memory = ""],
     [NoArguments EXCEPT !.worker_count = <<8>>, !.master_memory = "4GiB"],
     [worker_count |-> <<3>>, worker_cores |-> <<2>>, worker_memory |-> "6GiB",
      master_cores |-> <<2>>, master_memory |-> "5GiB"]}

\* SparkClusterManager._build_cluster_config(...): the SparkClusterConfig
build_cluster_config(defaults, args) ==
    ClusterDefaults(
        IF args.worker_count # <<>> THEN args.worker_count[1] ELSE defaults.worker_count,
        IF args.worker_cores # <<>> THEN args.worker_cores[1] ELSE defaults.worker_cores,
        IF Truthy(args.worker_memory) THEN args.worker_memory ELSE defaults.worker_memory,
        IF args.master_cores # <<>> THEN args.master_cores[1] ELSE defaults.master_cores,
        IF Truthy(args.master_memory) THEN args.master_memory ELSE defaults.master_memory)

-----------------------------------------------------------------------------
(* The hub process environment *)

Without(d, keys) == [k \in (DOMAIN d) \ keys |-> d[k]]

OsEnvironChoices(key, values) == {EmptyDict} \cup {key :> v : v \in values}

\* values of BERDL_SKIP_SPAWN_HOOKS
SkipValues ==
    {<<"t", "r", "u", "e">>, <<"T", "R", "U", "E">>, <<"T", "r", "u", "e">>,
     <<"f", "a", "l", "s", "e">>}

\* the settings validate_environment requires, as far as the handlers read them
RequiredEnviron ==
    [GOVERNANCE_API_URL |-> "https://gov",
     MINIO_ENDPOINT_URL |-> "https://minio",
     SPARK_CLUSTER_MANAGER_API_URL |-> "https://spark",
     BERDL_SKIP_SPAWN_HOOKS |-> <<"f", "a", "l", "s", "e">>]

\* a validated deployment with each value of the skip flag and MINIO_SECURE_FLAG
\* set or not, and (as the unit tests do) the same with required settings removed
OsEnvirons ==
    {c @@ e @@ RequiredEnviron :
        c \in OsEnvironChoices("MINIO_SECURE_FLAG", {"False", "true"}),
        e \in OsEnvironChoices("BERDL_SKIP_SPAWN_HOOKS", SkipValues)}
    \cup {Without(RequiredEnviron, {k}) :
            k \in {"GOVERNANCE_API_URL", "MINIO_ENDPOINT_URL",
                   "SPARK_CLUSTER_MANAGER_API_URL", "BERDL_SKIP_SPAWN_HOOKS"}}
    \cup {Without(RequiredEnviron, {"GOVERNANCE_API_URL", "MINIO_ENDPOINT_URL"})}

\* c.KubeSpawner.environment as far as the handlers touch it
BaseEnvironment == [KBASE_ORIGIN |-> "https://kbase", MINIO_SECURE |-> "True"]

Result(op, outcome, exc, value) == [op |-> op, outcome |-> outcome, error |-> exc, value |-> value]

\* no pod manifest is being built
NoPod == [env |-> <<>>, tolerations |-> <<>>, labels |-> <<>>]

\* no call of create_user_notebook_service is under way
NoBinders == <<>>

\* the state after a handler that ended as r = [exc, environment, calls, log]
Finish(op, r, value) ==
    /\ pre_environment' = environment
    /\ environment' = r.environment
    /\ calls' = r.calls
    /\ log' = r.log
    /\ result' = Result(op, IF r.exc = NoExc THEN "returned" ELSE "raised", r.exc,
                        IF r.exc = NoExc THEN value ELSE None)
    /\ UNCHANGED <<os_environ, services, kbase_auth, pod, binders>>

\* the state after SparkClusterManager("test-token") failed with exception type t
CtorFailed(t) ==
    /\ pre_environment' = environment
    /\ result' = Result("SparkClusterManager", "raised", Exc(t, <<>>, <<>>), None)
    /\ calls' = <<>>
    /\ log' = <<>>
    /\ UNCHANGED <<environment, os_environ, services, kbase_auth, pod, binders>>

Init ==
    /\ environment \in {EmptyDict, BaseEnvironment}
    /\ pre_environment = environment
    /\ os_environ \in OsEnvirons
    /\ result = Result("none", "returned", NoExc, None)
    /\ calls = <<>>
    /\ log = <<>>
    /\ services = EmptyDict
    /\ kbase_auth = [full_roles |-> {}, approved_roles |-> {}]
    /\ pod = NoPod
    /\ binders = NoBinders

\* a direct call of GovernanceUtils.set_governance_credentials, answered by resp
GovCall(resp) ==
    Finish("set_governance_credentials",
           set_governance_credentials(environment, os_environ, resp), None)

SetGovernanceCredentials == \E resp \in GovResponses : GovCall(resp)

\* manager.start_spark_cluster(spawner), the create answered by resp
StartCall(resp) ==
    LET r == start_spark_cluster(environment, resp)
    IN  Finish("start_spark_cluster", r, r.value)

\* SparkClusterManager("test-token").start_spark_cluster(spawner)
StartSparkCluster ==
    LET ctor == SparkClusterManagerInit({}, os_environ)
    IN  IF ctor # "none" THEN CtorFailed(ctor)
        ELSE \E resp \in CreateResponses : StartCall(resp)

\* manager.stop_spark_cluster(spawner), the delete answered by resp
StopCall(resp) ==
    LET r == stop_spark_cluster(environment, resp)
    IN  Finish("stop_spark_cluster", r, r.value)

\* SparkClusterManager("test-token").stop_spark_cluster(spawner)
StopSparkCluster ==
    LET ctor == SparkClusterManagerInit({}, os_environ)
    IN  IF ctor # "none" THEN CtorFailed(ctor)
        ELSE \E resp \in DeleteResponses : StopCall(resp)

\* a remote answer the handler never asks for
Unused == [kind |-> "unused"]

\* the hook gets past the token check and the skip check
PastSkipCheck(osenv, auth_state) ==
    /\ get_auth_token(auth_state).exc = NoExc
    /\ "BERDL_SKIP_SPAWN_HOOKS" \in DOMAIN osenv
    /\ ~SkipSpawnHooks(osenv)

\* the hook gets as far as the cluster-manager request
BuildsManager(osenv) == SparkClusterManagerInit({"environment"}, osenv) = "none"

\* the host runtime calls pre_spawn_hook(spawner) in a session whose auth state
\* is auth_state; a remote answer is drawn only where the hook issues the request
PreSpawnHookWith(auth_state) ==
    IF ~PastSkipCheck(os_environ, auth_state)
    THEN Finish("pre_spawn_hook",
                pre_spawn_hook(environment, os_environ, auth_state, Unused,
                               <<>>, EmptyDict, Unused), None)
    ELSE \E gov_resp \in GovResponses, sel \in ProfileSelections :
            \E create_resp \in (IF BuildsManager(os_environ)
                                THEN CreateResponses ELSE {Unused}) :
                Finish("pre_spawn_hook",
                       pre_spawn_hook(environment, os_environ, auth_state, gov_resp,
                                      sel[1], sel[2], create_resp), None)

PreSpawnHook == \E auth_state \in AuthStates : PreSpawnHookWith(auth_state)

\* the host runtime calls post_stop_hook(spawner)
PostStopHookWith(auth_state) ==
    IF ~PastSkipCheck(os_environ, auth_state)
    THEN Finish("post_stop_hook",
                post_stop_hook(environment, os_environ, auth_state,
                               <<>>, EmptyDict, Unused), None)
    ELSE \E sel \in ProfileSelections :
            \E delete_resp \in (IF BuildsManager(os_environ)
                                THEN DeleteResponses ELSE {Unused}) :
                Finish("post_stop_hook",
                       post_stop_hook(environment, os_environ, auth_state,
                                      sel[1], sel[2], delete_resp), None)

PostStopHook == \E auth_state \in AuthStates : PostStopHookWith(auth_state)

Next ==
    \/ SetGovernanceCredentials
    \/ StartSparkCluster
    \/ StopSparkCluster
    \/ PreSpawnHook
    \/ PostStopHook

Spec == Init /\ [][Next]_vars

-----------------------------------------------------------------------------
(* The notebook Service functions on their own *)

\* "a" repeated n times
Pad(n) == [i \in 1..n |-> "a"]

\* spawner.user.name
ShortUserNames ==
    {<<"a", "_", "b">>, <<"a", "-", "b">>, <<"A", ".", "b">>, <<"_", "_">>,
     <<"u", "@", "x", ".">>, <<"-", "a", "_", "_", "b", "9">>}

LongUserNames ==
    {Pad(K8S_NAME_LIMIT - 1) \o <<"_", "b">>, Pad(K8S_NAME_LIMIT + 1),
     Pad(K8S_NAME_LIMIT - 2) \o <<"B", "-", "c">>}

UserNames == ShortUserNames \cup LongUserNames

\* the users whose Service is created and deleted
ServiceUsers == {<<"a", "_", "b">>, <<"a", "-", "b">>, <<"A", ".", "b">>}

\* spawner.namespace
Namespaces == {"jupyterhub-prod", "jupyterhub-dev"}

\* a Service left under a user's name with another selector and port
StaleService == [selector |-> ("app" :> "old"), ports |-> {8080}]

\* the state after a Service function that ended as r = [exc, services, calls, log]
FinishService(op, r) ==
    /\ services' = r.services
    /\ calls' = r.calls
    /\ log' = r.log
    /\ result' = Result(op, IF r.exc = NoExc THEN "returned" ELSE "raised", r.exc, <<>>)
    /\ pre_environment' = environment
    /\ UNCHANGED <<environment, os_environ, kbase_auth, pod, binders>>

InitService ==
    /\ environment = BaseEnvironment
    /\ pre_environment = environment
    /\ os_environ = RequiredEnviron
    /\ result = Result("none", "returned", NoExc, <<>>)
    /\ calls = <<>>
    /\ log = <<>>
    /\ services \in {EmptyDict,
                     <<"jupyterhub-prod", ServiceName(<<"a", "_", "b">>)>> :> StaleService}
    /\ kbase_auth = [full_roles |-> {}, approved_roles |-> {}]
    /\ pod = NoPod
    /\ binders = NoBinders

\* create_user_notebook_service(spawner) for this user, the cluster behaving as k8s
CreateServiceCall(username, namespace, k8s) ==
    FinishService("create_user_notebook_service",
                  create_user_notebook_service(services, username, namespace, k8s))

CreateUserNotebookService ==
    \E username \in ServiceUsers, namespace \in Namespaces, k8s \in K8sBehaviours :
        CreateServiceCall(username, namespace, k8s)

\* delete_user_notebook_service(spawner)
DeleteServiceCall(username, namespace, k8s) ==
    FinishService("delete_user_notebook_service",
                  delete_user_notebook_service(services, username, namespace, k8s))

DeleteUserNotebookService ==
    \E username \in ServiceUsers, namespace \in Namespaces, k8s \in K8sBehaviours :
        DeleteServiceCall(username, namespace, k8s)

\* sanitize_k8s_name(spawner.user.name), as get_spark_connect_url calls it
SanitizeCall(name) ==
    /\ result' = Result("sanitize_k8s_name", "returned", NoExc, sanitize_k8s_name(name))
    /\ calls' = <<>>
    /\ log' = <<>>
    /\ pre_environment' = environment
    /\ UNCHANGED <<environment, os_environ, services, kbase_auth, pod, binders>>

SanitizeK8sName == \E name \in UserNames : SanitizeCall(name)

\* SPARK_CONNECT_URL as configure_environment has KubeSpawner compute it for the
\* pod; result.value is <<username, namespace, url>>
SparkConnectUrlCall(username, namespace) ==
    /\ result' = Result("get_spark_connect_url", "returned", NoExc,
                        <<username, namespace, get_spark_connect_url(username, namespace)>>)
    /\ calls' = <<>>
    /\ log' = <<>>
    /\ pre_environment' = environment
    /\ UNCHANGED <<environment, os_environ, services, kbase_auth, pod, binders>>

GetSparkConnectUrl ==
    \E username \in UserNames, namespace \in Namespaces : SparkConnectUrlCall(username, namespace)

NextService ==
    \/ CreateUserNotebookService
    \/ DeleteUserNotebookService
    \/ SanitizeK8sName
    \/ GetSparkConnectUrl

ServiceSpec == InitService /\ [][NextService]_vars

-----------------------------------------------------------------------------
(* The auth client on its own *)

\* the tokens handed to validate_token
Tokens == {"", "token-1", "token-2"}

\* the first lookup succeeds, so that the second is requested
TokenLookupOk(token, token_resp) == token # "" /\ get(token_resp).exc = NoExc

InitAuth ==
    /\ environment = BaseEnvironment
    /\ pre_environment = environment
    /\ os_environ = RequiredEnviron
    /\ result = Result("none", "returned", NoExc, <<>>)
    /\ calls = <<>>
    /\ log = <<>>
    /\ services = EmptyDict
    /\ kbase_auth = KBaseAuthInit(<<"KBASE_ADMIN">>, <<"kbase_user">>)
    /\ pod = NoPod
    /\ binders = NoBinders

\* KBaseAuth(auth_url, full_admin_roles, approved_roles) replaces the client
NewKBaseAuth ==
    \E cfg \in AuthConfigs :
        /\ kbase_auth' = KBaseAuthInit(cfg[1], cfg[2])
        /\ result' = Result("KBaseAuth", "returned", NoExc, <<>>)
        /\ calls' = <<>>
        /\ log' = <<>>
        /\ UNCHANGED <<environment, pre_environment, os_environ, services, pod, binders>>

\* validate_token(token), the two lookups answered by token_resp and me_resp
ValidateCall(token, token_resp, me_resp) ==
    LET r == validate_token(kbase_auth, token, token_resp, me_resp)
    IN  /\ result' = Result("validate_token", IF r.exc = NoExc THEN "returned" ELSE "raised",
                            r.exc, r.value)
        /\ calls' = r.calls
        /\ log' = r.log
        /\ UNCHANGED <<environment, pre_environment, os_environ, services, kbase_auth, pod, binders>>

\* an answer of api/V2/me is drawn only where the lookup is requested
ValidateToken ==
    \E token \in Tokens, token_resp \in TokenResponses :
        \E me_resp \in (IF TokenLookupOk(token, token_resp)
                        THEN MeResponses ELSE {TransportException}) :
            ValidateCall(token, token_resp, me_resp)

NextAuth ==
    \/ NewKBaseAuth
    \/ ValidateToken

AuthSpec == InitAuth /\ [][NextAuth]_vars

-----------------------------------------------------------------------------
(* Cluster sizing on its own *)

\* selection keys: the keys of PROFILES, unknown ones, and None for a missing key
SelectionKeys == {"small", "medium", "large", "mystery-tier", "Small", "", None}

\* os.environ with each DEFAULT_* variable set or not, and the cleared os.environ
\* of the unit tests
SizingEnvirons ==
    {a @@ b @@ c @@ d @@ e @@ RequiredEnviron :
        a \in OsEnvironChoices("DEFAULT_WORKER_COUNT", {<<"5">>, <<"1", "2">>, <<"t", "w", "o">>}),
        b \in OsEnvironChoices("DEFAULT_WORKER_CORES", {<<"3">>}),
        c \in OsEnvironChoices("DEFAULT_WORKER_MEMORY", {"15GiB"}),
        d \in OsEnvironChoices("DEFAULT_MASTER_CORES", {<<"2">>}),
        e \in OsEnvironChoices("DEFAULT_MASTER_MEMORY", {"3GiB"})}
    \cup {EmptyDict}

\* the user_options argument: None, an empty dict, a dict of settings
UserOptions ==
    {<<>>, <<EmptyDict>>,
     <<[DEFAULT_WORKER_COUNT |-> <<"7">>, DEFAULT_MASTER_MEMORY |-> "6GiB"]>>}

FinishSizing(op, exc, value) ==
    /\ result' = Result(op, IF exc = NoExc THEN "returned" ELSE "raised", exc, value)
    /\ calls' = <<>>
    /\ log' = <<>>
    /\ UNCHANGED <<environment, pre_environment, os_environ, services, kbase_auth, pod, binders>>

InitSizing ==
    /\ environment = BaseEnvironment
    /\ pre_environment = environment
    /\ os_environ \in SizingEnvirons
    /\ result = Result("none", "returned", NoExc, <<>>)
    /\ calls = <<>>
    /\ log = <<>>
    /\ services = EmptyDict
    /\ kbase_auth = [full_roles |-> {}, approved_roles |-> {}]
    /\ pod = NoPod
    /\ binders = NoBinders

\* ClusterDefaults.from_profile(profile_slug); result.value is <<profile_slug, profile>>
FromProfileCall(profile_slug) ==
    LET r == from_profile(profile_slug)
    IN  FinishSizing("from_profile", r.exc, <<profile_slug>> \o r.value)

FromProfile == \E profile_slug \in SelectionKeys : FromProfileCall(profile_slug)

\* ClusterDefaults.from_environment(user_options); result.value is <<user_options, defaults>>
FromEnvironmentCall(user_options) ==
    LET r == from_environment(user_options, os_environ)
    IN  FinishSizing("from_environment", r.exc, <<user_options>> \o r.value)

FromEnvironment == \E user_options \in UserOptions : FromEnvironmentCall(user_options)

\* SparkClusterManager(token)._build_cluster_config(**args); result.value is
\* <<args, config>>
BuildClusterConfigCall(args) ==
    LET ctor == SparkClusterManagerInit({}, os_environ)
        defaults == from_environment(<<>>, os_environ)
    IN  IF ctor # "none"
        THEN FinishSizing("build_cluster_config", Exc(ctor, <<>>, <<>>), <<args>>)
        ELSE IF defaults.exc # NoExc
        THEN FinishSizing("build_cluster_config", defaults.exc, <<args>>)
        ELSE FinishSizing("build_cluster_config", NoExc,
                          <<args, build_cluster_config(defaults.value[1], args)>>)

BuildClusterConfig == \E args \in ConfigArguments : BuildClusterConfigCall(args)

\* a profile list whose second and third display names generate one slug
SameSlugProfiles ==
    << [display_name |-> <<"X", ":", " ", "y">>,
        kubespawner_override |-> [environment |-> [PROFILE_TIER |-> "x-y"]]],
       [display_name |-> <<"A", " ", "+", " ", "b">>,
        kubespawner_override |-> [environment |-> [PROFILE_TIER |-> "second"]]],
       [display_name |-> <<"a", " ", "(", "B", ")", ",">>,
        kubespawner_override |-> [environment |-> [PROFILE_TIER |-> "third"]]] >>

SLUG_A_B == <<"a", "-", "b">>

\* (spawner.profile_list, spawner.user_options) of a lookup of the profile
\* environment: no key, a key that a profile generates, a key that none does
ProfileLookups ==
    ProfileSelections
    \cup ({<<>>, ConfiguredProfiles, OverridingProfiles, SameSlugProfiles}
          \X {EmptyDict, [profile |-> SLUG_SMALL], [profile |-> SLUG_MEDIUM],
              [profile |-> SLUG_MYSTERY], [profile |-> SLUG_A_B],
              [profile |-> <<"x", "-", "y">>], [profile |-> <<"A", " ", "+", " ", "b">>],
              [profile |-> <<>>]})

\* _get_profile_environment(spawner); result.value is
\* <<profile_list, user_options, profile_environment>>
GetProfileEnvironment ==
    \E lookup \in ProfileLookups :
        FinishSizing("get_profile_environment", NoExc,
                     <<lookup[1], lookup[2], get_profile_environment(lookup[1], lookup[2])>>)

NextSizing ==
    \/ FromProfile
    \/ FromEnvironment
    \/ BuildClusterConfig
    \/ GetProfileEnvironment

SizingSpec == InitSizing /\ [][NextSizing]_vars

-----------------------------------------------------------------------------
(* modify_pod_hook on its own *)

\* entries of a toleration string (none holds a comma): well-formed ones, with
\* and without surrounding blanks, with an empty value and effect, with a second
\* colon; blank ones; malformed ones
TolerationEntries ==
    {<<"a", "=", "b", ":", "N">>,
     <<" ", "c", "=", "d", ":", "P", " ">>,
     <<"e", "=", ":">>,
     <<"f", "=", "g", ":", "N", ":", "x">>,
     <<>>,
     <<" ">>,
     <<"b", "a", "d">>,
     <<"a", ":", "b", "=", "c">>,
     <<" ", "a", "=", "b">>}

\* the lists of 1..MaxEntries entries
EntryLists == UNION {[1..n -> TolerationEntries] : n \in 1..MaxEntries}

\* ",".join(entries)
RECURSIVE Join(_)
Join(entries) ==
    IF Len(entries) = 1 THEN entries[1]
    ELSE entries[1] \o <<",">> \o Join(Tail(entries))

\* the toleration string of every list of entries
TolerationString == [entries \in EntryLists |-> Join(entries)]

\* os.environ with BERDL_TOLERATIONS unset or set to a toleration string
PodEnvirons ==
    {RequiredEnviron}
    \cup {[BERDL_TOLERATIONS |-> TolerationString[entries]] @@ RequiredEnviron :
            entries \in EntryLists}

\* a toleration the spawner configuration has put on the pod
ConfiguredToleration == V1Toleration(<<"g", "p", "u">>, <<"y">>, <<"N">>)

\* the pod manifests the spawner hands to the hook
PodManifests ==
    {[env |-> e, tolerations |-> t, labels |-> <<>>] :
        e \in {<<>>, <<"JUPYTERHUB_USER">>},
        t \in {<<>>, <<<<ConfiguredToleration>>>>}}

InitPod ==
    /\ environment = BaseEnvironment
    /\ pre_environment = environment
    /\ os_environ \in PodEnvirons
    /\ result = Result("none", "returned", NoExc, <<>>)
    /\ calls = <<>>
    /\ log = <<>>
    /\ services = EmptyDict
    /\ kbase_auth = [full_roles |-> {}, approved_roles |-> {}]
    /\ pod \in PodManifests
    /\ binders = NoBinders

\* the spawner builds the manifest of the next pod
NewPodManifest ==
    /\ pod' \in PodManifests
    /\ result' = Result("get_pod_manifest", "returned", NoExc, <<>>)
    /\ calls' = <<>>
    /\ log' = <<>>
    /\ UNCHANGED <<environment, pre_environment, os_environ, services, kbase_auth, binders>>

\* the spawner calls modify_pod_hook(spawner, pod) on a manifest it has built;
\* result.value is <<the tolerations of the pod as the hook found it>>
ModifyPodHook ==
    /\ pod \in PodManifests
    /\ LET r == modify_pod_hook(pod, os_environ)
       IN  /\ pod' = r.pod
           /\ log' = r.log
           /\ result' = Result("modify_pod_hook", "returned", NoExc, pod.tolerations)
    /\ calls' = <<>>
    /\ UNCHANGED <<environment, pre_environment, os_environ, services, kbase_auth, binders>>

\* parse_tolerations_from_env(os.environ["BERDL_TOLERATIONS"], spawner);
\* result.value is the list of tolerations returned
ParseTolerationsFromEnv ==
    /\ "BERDL_TOLERATIONS" \in DOMAIN os_environ
    /\ LET r == parse_tolerations_from_env(os_environ["BERDL_TOLERATIONS"])
       IN  /\ log' = r.log
           /\ result' = Result("parse_tolerations_from_env", "returned", NoExc, r.tolerations)
    /\ calls' = <<>>
    /\ UNCHANGED <<environment, pre_environment, os_environ, services, kbase_auth, pod, binders>>

NextPod ==
    \/ NewPodManifest
    \/ ModifyPodHook
    \/ ParseTolerationsFromEnv

PodSpec == InitPod /\ [][NextPod]_vars

-----------------------------------------------------------------------------
(* The pod labels and the Service selector, in one namespace *)

\* pod.metadata.labels of the manifests the spawner hands over: None, empty,
\* other keys only, and keys that the Service selector holds too
PodLabels ==
    {<<>>, <<EmptyDict>>,
     <<("team" :> "kbase")>>,
     <<("app" :> "jupyterhub") @@ ("team" :> "kbase")>>,
     <<(UsernameLabel :> <<"a", "-", "b">>) @@ ("heritage" :> "jupyterhub")>>}

LabelledPods == {[NoPod EXCEPT !.labels = l] : l \in PodLabels}

InitLabels ==
    /\ environment = BaseEnvironment
    /\ pre_environment = environment
    /\ os_environ = RequiredEnviron
    /\ result = Result("none", "returned", NoExc, <<>>)
    /\ calls = <<>>
    /\ log = <<>>
    /\ services = EmptyDict
    /\ kbase_auth = [full_roles |-> {}, approved_roles |-> {}]
    /\ pod \in LabelledPods
    /\ binders = NoBinders

\* the spawner builds the manifest of the next pod
NewLabelledPod ==
    /\ pod' \in LabelledPods
    /\ result' = Result("get_pod_manifest", "returned", NoExc, <<>>)
    /\ calls' = <<>>
    /\ log' = <<>>
    /\ UNCHANGED <<environment, pre_environment, os_environ, services, kbase_auth, binders>>

\* ensure_pod_labels_for_service(spawner, pod); result.value is
\* <<username, the labels of the pod as the function found them>>
EnsurePodLabelsForService ==
    \E username \in ServiceUsers :
        /\ pod' = ensure_pod_labels_for_service(pod, username)
        /\ result' = Result("ensure_pod_labels_for_service", "returned", NoExc,
                            <<username, pod.labels>>)
        /\ calls' = <<>>
        /\ log' = <<>>
        /\ UNCHANGED <<environment, pre_environment, os_environ, services, kbase_auth, binders>>

\* create_user_notebook_service(spawner) in the one namespace
CreateLabelledService ==
    \E username \in ServiceUsers, k8s \in K8sBehaviours :
        CreateServiceCall(username, "jupyterhub-prod", k8s)

NextLabels ==
    \/ NewLabelledPod
    \/ EnsurePodLabelsForService
    \/ CreateLabelledService

LabelSpec == InitLabels /\ [][NextLabels]_vars

-----------------------------------------------------------------------------
(* Two calls of create_user_notebook_service for one user and namespace under
   way at once: each request to the API server is one step, and the server
   answers every request from its store *)

Callers == {1, 2}

\* a caller that has built the V1Service body and loaded the configuration
Binder(username, namespace) ==
    [username |-> username, namespace |-> namespace, pc |-> "read", exc |-> NoExc]

BinderKey(b) == <<b.namespace, ServiceName(b.username)>>

BinderCall(b, api) == K8sCall(api, b.namespace, ServiceName(b.username))

InitRace ==
    /\ environment = BaseEnvironment
    /\ pre_environment = environment
    /\ os_environ = RequiredEnviron
    /\ result = Result("none", "returned", NoExc, <<>>)
    /\ calls = <<>>
    /\ log = <<>>
    /\ kbase_auth = [full_roles |-> {}, approved_roles |-> {}]
    /\ pod = NoPod
    /\ \E username \in ServiceUsers, namespace \in Namespaces :
           /\ binders = <<Binder(username, namespace), Binder(username, namespace)>>
           /\ services \in {EmptyDict,
                            <<namespace, ServiceName(username)>> :> StaleService,
                            <<namespace, <<"jupyter-", "z">>>> :> StaleService}

\* the caller moves to pc; a caller that is done has returned or raised exc
BinderStep(c, pc, exc, svcs, api, records) ==
    /\ binders' = [binders EXCEPT ![c].pc = pc, ![c].exc = exc]
    /\ services' = svcs
    /\ calls' = Append(calls, BinderCall(binders[c], api))
    /\ log' = log \o records
    /\ result' = IF pc = "done"
                 THEN Result("create_user_notebook_service",
                             IF exc = NoExc THEN "returned" ELSE "raised", exc, <<c>>)
                 ELSE result
    /\ UNCHANGED <<environment, pre_environment, os_environ, kbase_auth, pod>>

\* the exception of a step of caller c reaches the outer handler
BinderFailed(c, api, cause) ==
    LET h == OuterExcept(cause)
    IN  BinderStep(c, "done", h.exc, services, api, h.log)

\* except ApiException as e, after the request api of caller c was answered with
\* this status: on not-found the caller goes on to create, else it raises again
BinderApiError(c, api, status) ==
    IF ReadNotFound(status)
    THEN BinderStep(c, "create", NoExc, services, api, <<>>)
    ELSE BinderFailed(c, api, "ApiException")

\* v1.read_namespaced_service(name=service_name, namespace=namespace)
BinderRead(c) ==
    /\ binders[c].pc = "read"
    /\ LET r == ReadAnswer(services, BinderKey(binders[c]), FromStore)
       IN  IF r.kind = "ok" THEN BinderStep(c, "patch", NoExc, services, ServiceRead, <<>>)
           ELSE IF r.kind = "api_error" THEN BinderApiError(c, ServiceRead, r.status)
           ELSE BinderFailed(c, ServiceRead, "Exception")

\* v1.patch_namespaced_service(name=service_name, namespace=namespace, body=service)
BinderPatch(c) ==
    /\ binders[c].pc = "patch"
    /\ LET key == BinderKey(binders[c])
           w == WriteAnswer(WriteOnFound, services, key, FromStore)
       IN  IF w.kind = "ok"
           THEN BinderStep(c, "done", NoExc,
                           Written(services, key, DesiredService(binders[c].username)),
                           WriteOnFound, <<LogRec("info", "Updated Service", "none")>>)
           ELSE IF w.kind = "api_error" THEN BinderApiError(c, WriteOnFound, w.status)
           ELSE BinderFailed(c, WriteOnFound, "Exception")

\* v1.create_namespaced_service(namespace=namespace, body=service), inside the
\* ApiException handler
BinderCreate(c) ==
    /\ binders[c].pc = "create"
    /\ LET key == BinderKey(binders[c])
           w == WriteAnswer(ServiceCreate, services, key, FromStore)
       IN  IF w.kind = "ok"
           THEN BinderStep(c, "done", NoExc,
                           Written(services, key, DesiredService(binders[c].username)),
                           ServiceCreate,
                           <<LogRec("info", "Created Service", "none"),
                             LogRec("info", "Jupyter address", "none"),
                             LogRec("info", "Spark Connect address", "none")>>)
           ELSE BinderFailed(c, ServiceCreate,
                             IF w.kind = "api_error" THEN "ApiException" ELSE "Exception")

NextRace ==
    \/ \E c \in Callers : BinderRead(c)
    \/ \E c \in Callers : BinderPatch(c)
    \/ \E c \in Callers : BinderCreate(c)

RaceSpec == InitRace /\ [][NextRace]_vars

-----------------------------------------------------------------------------
(* The four components together (auth client, credential provisioning, cluster
   manager, notebook Service), for one user of one namespace *)

HubUser == <<"a", "_", "b">>

HubNamespace == "jupyterhub-prod"

HubToken == "token-1"

InitHub ==
    /\ environment = BaseEnvironment
    /\ pre_environment = environment
    /\ os_environ = RequiredEnviron
    /\ result = Result("none", "returned", NoExc, None)
    /\ calls = <<>>
    /\ log = <<>>
    /\ services = EmptyDict
    /\ kbase_auth = KBaseAuthInit(<<"KBASE_ADMIN">>, <<"kbase_user">>)
    /\ pod = NoPod
    /\ binders = NoBinders

\* create_user_notebook_service(spawner) for the user
BindService == \E k8s \in K8sBehaviours : CreateServiceCall(HubUser, HubNamespace, k8s)

\* delete_user_notebook_service(spawner) for the user
UnbindService == \E k8s \in K8sBehaviours : DeleteServiceCall(HubUser, HubNamespace, k8s)

\* validate_token(token) for the user's token
LookupIdentity ==
    \E token_resp \in TokenResponses :
        \E me_resp \in (IF TokenLookupOk(HubToken, token_resp)
                        THEN MeResponses ELSE {TransportException}) :
            ValidateCall(HubToken, token_resp, me_resp)

NextHub ==
    \/ LookupIdentity
    \/ SetGovernanceCredentials
    \/ StartSparkCluster
    \/ StopSparkCluster
    \/ BindService
    \/ UnbindService

HubSpec == InitHub /\ [][NextHub]_vars

-----------------------------------------------------------------------------
(* Vocabulary of the properties *)

Range(q) == {q[i] : i \in DOMAIN q}

ErrorRecords(l) == {i \in DOMAIN l : l[i].level = "error"}

\* a key is present in a dict with a non-empty value
NonEmptyAt(d, k) == k \in DOMAIN d /\ d[k] # ""

\* the governance step fails on this answer, as the claim lists the failures
GovFailure(osenv, resp) ==
    \/ "GOVERNANCE_API_URL" \notin DOMAIN osenv
    \/ "MINIO_ENDPOINT_URL" \notin DOMAIN osenv
    \/ resp.kind = "error"
    \/ /\ resp.kind = "response"
       /\ \/ resp.status \notin 200..299
          \/ resp.body.kind # "object"
          \/ {"access_key", "secret_key"} \ DOMAIN resp.body.fields # {}

\* the five variables of the denial
DenialWritten(env) ==
    /\ {"MINIO_ACCESS_KEY", "MINIO_SECRET_KEY", "MINIO_ENDPOINT", "MINIO_SECURE",
        "MINIO_CONFIG_ERROR"} \subseteq DOMAIN env
    /\ env["MINIO_ACCESS_KEY"] = ""
    /\ env["MINIO_SECRET_KEY"] = ""
    /\ env["MINIO_ENDPOINT"] = ""
    /\ env["MINIO_SECURE"] = "False"
    /\ env["MINIO_CONFIG_ERROR"]
         = "Failed to retrieve MinIO credentials. Please contact an administrator."

\* the session holds a usable token
HasToken(auth_state) == "kbase_token" \in DOMAIN auth_state /\ auth_state["kbase_token"] # ""

\* BERDL_SKIP_SPAWN_HOOKS is "true" in some letter case
SkipFlagTrue ==
    /\ "BERDL_SKIP_SPAWN_HOOKS" \in DOMAIN os_environ
    /\ os_environ["BERDL_SKIP_SPAWN_HOOKS"]
         \in {<<"t", "r", "u", "e">>, <<"T", "R", "U", "E">>, <<"T", "r", "u", "e">>}

\* the last handler was a hook that went past the skip check: it ran the
\* credential provisioning (which logs its success or its failure)
ProvisioningRan ==
    \E i \in DOMAIN log :
        log[i].event \in {"Successfully set MinIO credentials",
                          "Failed to get governance credentials"}

Requested(call) == call \in Range(calls)

\* some request a comes before some request b in calls
Before(a, b) == \E i, j \in DOMAIN calls : i < j /\ calls[i] = a /\ calls[j] = b

-----------------------------------------------------------------------------
(* C1 - C10 *)

\* C1: set_governance_credentials never raises: whatever the answer, the call
\* returns; and for every failure of the governance step (transport exception or
\* timeout, non-2xx status, body that is not a JSON object with access_key and
\* secret_key, GOVERNANCE_API_URL or MINIO_ENDPOINT_URL unset) it leaves the five
\* denial variables in the pod environment and has logged exactly one error.
C1_GovernanceNeverRaises ==
    [][\A resp \in GovResponses :
          (result'.op = "set_governance_credentials" /\ GovCall(resp)) =>
              /\ result'.outcome = "returned"
              /\ GovFailure(os_environ, resp) =>
                    /\ DenialWritten(environment')
                    /\ Cardinality(ErrorRecords(log')) = 1]_vars

\* C1 witness: a call that timed out ended in the denial, with one error logged
C1_Witness ==
    /\ result.op = "set_governance_credentials"
    /\ result.outcome = "returned"
    /\ Cardinality(ErrorRecords(log)) = 1
    /\ \E i \in DOMAIN log : log[i].cause = "ReadTimeout"
    /\ DenialWritten(environment)

\* C2 (as claimed): after a set_governance_credentials call exactly one of
\* MINIO_ACCESS_KEY and the error marker MINIO_CONFIG_ERROR is non-empty.
C2_ExactlyOneShape ==
    result.op = "set_governance_credentials" =>
        (NonEmptyAt(environment, "MINIO_ACCESS_KEY")
            # NonEmptyAt(environment, "MINIO_CONFIG_ERROR"))

\* C3: after a set_governance_credentials call that succeeded (it logged its
\* success), MINIO_CONFIG_ERROR is absent from the pod environment, also when an
\* earlier call had left it there.
C3_SuccessClearsMarker ==
    (/\ result.op = "set_governance_credentials"
     /\ \E i \in DOMAIN log : log[i].event = "Successfully set MinIO credentials")
        => "MINIO_CONFIG_ERROR" \notin DOMAIN environment

\* C3 witness: a successful call entered with the marker of an earlier denial
C3_Witness ==
    /\ result.op = "set_governance_credentials"
    /\ "MINIO_CONFIG_ERROR" \in DOMAIN pre_environment
    /\ "MINIO_CONFIG_ERROR" \notin DOMAIN environment
    /\ NonEmptyAt(environment, "MINIO_ACCESS_KEY")

\* C4: when the session has no auth state, or its auth state has no kbase_token,
\* pre_spawn_hook raises, has issued no remote call and has left the pod
\* environment as it found it.
C4_NoTokenAbortsSpawn ==
    [][\A a \in AuthStates :
          (result'.op = "pre_spawn_hook" /\ ~HasToken(a) /\ PreSpawnHookWith(a)) =>
              /\ result'.outcome = "raised"
              /\ calls' = <<>>
              /\ environment' = environment]_vars

\* C4 witness: a spawn aborted for a missing token, on an environment that an
\* earlier provisioning had filled
C4_Witness ==
    /\ result.op = "pre_spawn_hook"
    /\ result.outcome = "raised"
    /\ result.error.type = "RuntimeError"
    /\ calls = <<>>
    /\ "MINIO_ACCESS_KEY" \in DOMAIN environment
    /\ environment = pre_environment

\* C5 (as claimed): a pre_spawn_hook that went past the skip check with a valid
\* token requests the cluster creation, whatever the governance call gave.
C5_ProvisioningThenCreate ==
    (result.op = "pre_spawn_hook" /\ ProvisioningRan) => Requested(ClusterCreate)

\* C6 (as claimed): a non-skipped spawn either fails in the cluster creation,
\* which the hook propagates without writing an address, or creates the cluster
\* and returns with SPARK_MASTER_URL written.
C6_CreateOutcomeDecidesSpawn ==
    (result.op = "pre_spawn_hook" /\ ProvisioningRan) =>
        \/ /\ result.outcome = "raised"
           /\ Requested(ClusterCreate)
           /\ Get(environment, "SPARK_MASTER_URL", None)
                = Get(pre_environment, "SPARK_MASTER_URL", None)
        \/ /\ result.outcome = "returned"
           /\ Requested(ClusterCreate)
           /\ NonEmptyAt(environment, "SPARK_MASTER_URL")

\* the create answer counts as success
CreateSucceeds(resp) ==
    /\ resp.kind = "response"
    /\ resp.status = 201
    /\ resp.parsed # <<>>
    /\ resp.parsed[1].master_url \notin {None, ""}

\* C7 (as claimed): start_spark_cluster succeeds exactly on 201 with a parsed
\* body and a non-empty master address; on every other answer it fails with a
\* SparkClusterError that carries the status, and the response content where
\* there is one; SPARK_MASTER_URL is written iff it succeeded.
C7_FailureCarriesStatus ==
    [][\A resp \in CreateResponses :
          (result'.op = "start_spark_cluster" /\ resp.kind = "response" /\ StartCall(resp)) =>
              IF CreateSucceeds(resp)
              THEN /\ result'.outcome = "returned"
                   /\ environment' = Update(environment,
                                            [SPARK_MASTER_URL |-> resp.parsed[1].master_url])
              ELSE /\ result'.outcome = "raised"
                   /\ result'.error.type = "SparkClusterError"
                   /\ result'.error.status = <<resp.status>>
                   /\ (resp.content # "" => result'.error.detail = <<resp.content>>)
                   /\ environment' = environment]_vars

\* C7 (amended): start_spark_cluster succeeds exactly on 201 with a parsed body
\* and a non-empty master address, and then writes that address as
\* SPARK_MASTER_URL and returns it.  On every other answer it fails with a
\* SparkClusterError and writes nothing: the error carries the status (and the
\* response content when there is one) when the status is not 201 or nothing was
\* parsed, and carries only "Master URL not found in response" when a 201 was
\* parsed and its master address is empty or missing.  A transport exception is
\* propagated as it is, and nothing is written.
C7_SuccessIffMasterAddress ==
    [][\A resp \in CreateResponses :
          (result'.op = "start_spark_cluster" /\ StartCall(resp)) =>
              IF resp.kind = "error"
              THEN /\ result'.outcome = "raised"
                   /\ result'.error.type = resp.exc
                   /\ environment' = environment
              ELSE IF CreateSucceeds(resp)
              THEN /\ result'.outcome = "returned"
                   /\ result'.value = resp.parsed[1].master_url
                   /\ environment' = Update(environment,
                                            [SPARK_MASTER_URL |-> resp.parsed[1].master_url])
              ELSE /\ result'.outcome = "raised"
                   /\ result'.error.type = "SparkClusterError"
                   /\ environment' = environment
                   /\ IF resp.status = 201 /\ resp.parsed # <<>>
                      THEN /\ result'.error.status = <<>>
                           /\ result'.error.detail = <<"Master URL not found in response">>
                      ELSE /\ result'.error.status = <<resp.status>>
                           /\ result'.error.detail
                                = (IF resp.content # "" THEN <<resp.content>> ELSE <<>>)]_vars

\* C7 witness: a 201 whose master address was empty or missing failed without
\* writing an address
C7_Witness ==
    /\ result.op = "start_spark_cluster"
    /\ result.outcome = "raised"
    /\ result.error.type = "SparkClusterError"
    /\ result.error.detail = <<"Master URL not found in response">>
    /\ "SPARK_MASTER_URL" \notin DOMAIN environment

\* C8: stop_spark_cluster never raises: it returns the parsed response when the
\* delete is answered with 200 or 204, and None for every other status and for
\* every exception of the transport.
C8_StopNeverRaises ==
    [][\A resp \in DeleteResponses :
          (result'.op = "stop_spark_cluster" /\ StopCall(resp)) =>
              /\ result'.outcome = "returned"
              /\ result'.value
                   = (IF resp.kind = "response" /\ resp.status \in {200, 204}
                      THEN resp.parsed ELSE None)]_vars

\* C8 witness: a delete that failed (an error status or a transport exception,
\* both logged as errors) returned None
C8_Witness ==
    /\ result.op = "stop_spark_cluster"
    /\ result.outcome = "returned"
    /\ result.value = None
    /\ ErrorRecords(log) # {}

\* C9 (as claimed): with the skip flag "true" in any letter case, pre_spawn_hook
\* and post_stop_hook return, have issued no remote call and have left the pod
\* environment unchanged.
C9_SkipAlwaysReturns ==
    (result.op \in {"pre_spawn_hook", "post_stop_hook"} /\ SkipFlagTrue) =>
        /\ result.outcome = "returned"
        /\ calls = <<>>
        /\ environment = pre_environment

\* C9 (amended): with the skip flag "true" in any letter case, pre_spawn_hook and
\* post_stop_hook issue no remote call and leave the pod environment unchanged;
\* they return when the session holds a token, and raise RuntimeError (the token
\* check comes before the skip check) when it does not.
C9_SkipHasNoSideEffects ==
    [][\A a \in AuthStates :
          (/\ result'.op \in {"pre_spawn_hook", "post_stop_hook"}
           /\ SkipFlagTrue
           /\ (PreSpawnHookWith(a) \/ PostStopHookWith(a))) =>
              /\ calls' = <<>>
              /\ environment' = environment
              /\ IF HasToken(a)
                 THEN result'.outcome = "returned"
                 ELSE result'.outcome = "raised" /\ result'.error.type = "RuntimeError"]_vars

\* C9 witness: a spawn skipped under an upper-case flag, on an environment that
\* an earlier provisioning had filled
C9_Witness ==
    /\ result.op = "pre_spawn_hook"
    /\ result.outcome = "returned"
    /\ os_environ["BERDL_SKIP_SPAWN_HOOKS"] = <<"T", "R", "U", "E">>
    /\ calls = <<>>
    /\ "MINIO_ACCESS_KEY" \in DOMAIN environment
    /\ environment = pre_environment

\* C10 (as claimed): a non-skipped spawn either fails in the cluster creation, or
\* returns having requested the endpoint bind (the read of the Service) after the
\* cluster creation.
C10_BindAfterCreate ==
    (result.op = "pre_spawn_hook" /\ ProvisioningRan) =>
        \/ result.outcome = "raised" /\ Requested(ClusterCreate) /\ ~Requested(ServiceRead)
        \/ result.outcome = "returned" /\ Before(ClusterCreate, ServiceRead)

-----------------------------------------------------------------------------
(* C11 - C20 *)

\* the last handler was a post_stop_hook that went past the token check and the
\* skip check
StopNotSkipped ==
    /\ result.op = "post_stop_hook"
    /\ "BERDL_SKIP_SPAWN_HOOKS" \in DOMAIN os_environ
    /\ ~SkipFlagTrue
    /\ ~(result.outcome = "raised" /\ result.error.type = "RuntimeError")

\* C11 (as claimed): every non-skipped post_stop_hook requests the cluster delete
\* and then the delete of the notebook Service, whatever the cluster delete gave.
C11_DeleteThenUnbind ==
    StopNotSkipped => Before(ClusterDelete, ServiceDelete)

\* C12 (as claimed): a non-skipped post_stop_hook on a pod environment that no
\* spawn has written a cluster address to still requests the cluster delete and
\* the delete of the notebook Service, and returns.
C12_StopWithoutSpawnCompletes ==
    (StopNotSkipped /\ "SPARK_MASTER_URL" \notin DOMAIN pre_environment) =>
        /\ result.outcome = "returned"
        /\ Requested(ClusterDelete)
        /\ Requested(ServiceDelete)

\* the Service of this user in this namespace, and the calls on it
ServiceKey(username, namespace) == <<namespace, ServiceName(username)>>

CallOn(api, username, namespace) == K8sCall(api, namespace, ServiceName(username))

NoErrorLogged(l) == ErrorRecords(l) = {}

\* C13: with the cluster answering from its store, create_user_notebook_service
\* for a user whose Service does not exist reads it (not found) and creates it
\* with the desired spec; called again right after for the same user and
\* namespace it reads and patches the Service in place: the set of Services is
\* the same, the Service holds the desired selector and ports, and neither call
\* logs an error or raises.
C13_SecondBindPatches ==
    [][\A u \in ServiceUsers, ns \in Namespaces :
          LET key == ServiceKey(u, ns)
              created == <<CallOn(ServiceRead, u, ns), CallOn(ServiceCreate, u, ns)>>
              patched == <<CallOn(ServiceRead, u, ns), CallOn(ServicePatch, u, ns)>>
          IN  /\ (/\ result'.op = "create_user_notebook_service"
                  /\ key \notin DOMAIN services
                  /\ CreateServiceCall(u, ns, Healthy)) =>
                     /\ calls' = created
                     /\ services' = Written(services, key, DesiredService(u))
                     /\ NoErrorLogged(log')
                     /\ result'.outcome = "returned"
              /\ (/\ result.op = "create_user_notebook_service"
                  /\ calls = created
                  /\ NoErrorLogged(log)
                  /\ key \in DOMAIN services
                  /\ services[key] = DesiredService(u)
                  /\ result'.op = "create_user_notebook_service"
                  /\ CreateServiceCall(u, ns, Healthy)) =>
                     /\ calls' = patched
                     /\ DOMAIN services' = DOMAIN services
                     /\ services'[key] = DesiredService(u)
                     /\ NoErrorLogged(log')
                     /\ result'.outcome = "returned"]_vars

\* C13 witness: a bind that patched, without error, a Service of the namespace
\* that starts with no Service: an earlier bind created it
C13_Witness ==
    /\ result.op = "create_user_notebook_service"
    /\ calls = <<CallOn(ServiceRead, <<"a", "_", "b">>, "jupyterhub-dev"),
                 CallOn(ServicePatch, <<"a", "_", "b">>, "jupyterhub-dev")>>
    /\ NoErrorLogged(log)
    /\ services[ServiceKey(<<"a", "_", "b">>, "jupyterhub-dev")]
         = DesiredService(<<"a", "_", "b">>)

\* C14: delete_user_notebook_service never raises.  When the Service does not
\* exist (the delete is answered not-found) it logs no error and leaves the
\* Services alone; on every other ApiException, on any other exception and when
\* the cluster configuration cannot be loaded it logs an error and returns.
C14_UnbindNeverRaises ==
    [][\A u \in ServiceUsers, ns \in Namespaces, k8s \in K8sBehaviours :
          (result'.op = "delete_user_notebook_service" /\ DeleteServiceCall(u, ns, k8s)) =>
              /\ result'.outcome = "returned"
              /\ (k8s = Healthy /\ ServiceKey(u, ns) \notin DOMAIN services) =>
                    /\ NoErrorLogged(log')
                    /\ services' = services
              /\ (k8s.config # "ok" \/ k8s.read \in ReadFaults) =>
                    /\ ~NoErrorLogged(log')
                    /\ services' = services]_vars

\* C14 witness: an unbind answered not-found that logged "already deleted"
C14_Witness ==
    /\ result.op = "delete_user_notebook_service"
    /\ result.outcome = "returned"
    /\ Len(calls) = 1
    /\ calls[1].api = ServiceDelete
    /\ Len(log) = 1
    /\ log[1] = LogRec("info", "Service already deleted", "none")

\* C15 (as claimed): when the read of the Service fails with an error other than
\* not-found, create_user_notebook_service neither patches nor creates, and
\* raises that error.
C15_ReadErrorRaised ==
    [][\A u \in ServiceUsers, ns \in Namespaces, k8s \in K8sBehaviours :
          (/\ result'.op = "create_user_notebook_service"
           /\ k8s.config = "ok"
           /\ k8s.read \in ReadFaults
           /\ CreateServiceCall(u, ns, k8s)) =>
              /\ calls' = <<CallOn(ServiceRead, u, ns)>>
              /\ services' = services
              /\ result'.outcome = "raised"]_vars

\* C15 (amended): when the read of the Service fails with an error other than
\* not-found, create_user_notebook_service neither patches nor creates; the
\* error is not taken for not-found: it is logged as the failure to create or
\* update the Service, and the function returns normally.
C15_ReadErrorLoggedNotMasked ==
    [][\A u \in ServiceUsers, ns \in Namespaces, k8s \in K8sBehaviours :
          (/\ result'.op = "create_user_notebook_service"
           /\ k8s.config = "ok"
           /\ k8s.read \in ReadFaults
           /\ CreateServiceCall(u, ns, k8s)) =>
              /\ calls' = <<CallOn(ServiceRead, u, ns)>>
              /\ services' = services
              /\ result'.outcome = "returned"
              /\ log' = <<LogRec("error", "Failed to create/update Service",
                                 IF k8s.read.kind = "api_error"
                                 THEN "ApiException" ELSE "Exception")>>]_vars

\* C15 witness: a bind that stopped at the read with an ApiException logged
C15_Witness ==
    /\ result.op = "create_user_notebook_service"
    /\ Len(calls) = 1
    /\ calls[1].api = ServiceRead
    /\ log = <<LogRec("error", "Failed to create/update Service", "ApiException")>>

\* a name of lowercase alphanumerics and '-' that neither starts nor ends with
\* '-' and has at most 253 characters
HyphenatedName(n) ==
    /\ \A i \in 1..Len(n) : n[i] \in LowerAlnum \cup {"-"}
    /\ n # <<>> => (n[1] # "-" /\ n[Len(n)] # "-")
    /\ Len(n) <= 253

\* C16 (as claimed): for every user id, sanitize_k8s_name returns a name of
\* lowercase alphanumerics and '-' only, that neither starts nor ends with '-',
\* of at most 253 characters.
C16_NameIsHyphenated ==
    result.op = "sanitize_k8s_name" => HyphenatedName(result.value)

\* the inputs of validate_token by the way the lookups are answered
NonEmptyTokens == {t \in Tokens : t # ""}

IsOk(resp) == resp.kind = "response" /\ resp.status = 200 /\ resp.json

OkTokenResponses == {r \in TokenResponses : IsOk(r)}

OkMeResponses == {r \in MeResponses : IsOk(r)}

\* the custom role set of an identity lookup
RolesOf(me_resp) == SetOf(Get(me_resp.obj, "customroles", <<>>))

\* the identity lookup carries no principal id
NoPrincipalId(me_resp) == "user" \notin DOMAIN me_resp.obj \/ me_resp.obj["user"] = ""

\* the answer is the invalid-token error of the auth server (appcode 10020)
InvalidTokenAnswer(resp) ==
    /\ resp.kind = "response" /\ resp.status # 200 /\ resp.json
    /\ "error" \in DOMAIN resp.obj
    /\ "appcode" \in DOMAIN resp.obj["error"]
    /\ resp.obj["error"]["appcode"] = 10020

\* the answer is a response that is not 200 and not the invalid-token error
OtherErrorAnswer(resp) ==
    resp.kind = "response" /\ resp.status # 200 /\ ~InvalidTokenAnswer(resp)

InvalidTokenResponses == {r \in AuthErrorResponses : InvalidTokenAnswer(r)}

OtherErrorResponses == {r \in AuthErrorResponses : OtherErrorAnswer(r)}

NoPrincipalResponses == {r \in OkMeResponses : NoPrincipalId(r)}

\* the lookups as C19 lists them: the first answered with the invalid-token
\* error (the second is then not requested), or the first answered 200 and the
\* second with the invalid-token error or without a principal id
InvalidCredentialCases ==
    (InvalidTokenResponses \X {TransportException})
    \cup (OkTokenResponses \X (InvalidTokenResponses \cup NoPrincipalResponses))

\* the lookups as C20 lists them: the first answered with another error, or the
\* first answered 200 and the second with another error
OtherErrorCases ==
    (OtherErrorResponses \X {TransportException})
    \cup (OkTokenResponses \X OtherErrorResponses)

\* C17: when both lookups succeed and the user's custom roles share no role with
\* the approved roles, validate_token raises AuthenticationError with status 403,
\* whatever full-admin roles the user holds; the message lists the approved
\* roles, sorted, and no KBaseUser is returned.
C17_NoApprovedRoleDenied ==
    [][\A token \in NonEmptyTokens, token_resp \in OkTokenResponses, me_resp \in OkMeResponses :
          (/\ result'.op = "validate_token"
           /\ RolesOf(me_resp) \cap kbase_auth.approved_roles = {}
           /\ ValidateCall(token, token_resp, me_resp)) =>
              /\ result'.outcome = "raised"
              /\ result'.error.type = "AuthenticationError"
              /\ result'.error.status = <<403>>
              /\ Head(result'.error.detail) = AccessDenied
              /\ Tail(result'.error.detail) = Sorted(kbase_auth.approved_roles)
              /\ SetOf(Tail(result'.error.detail)) = kbase_auth.approved_roles
              /\ result'.value = <<>>]_vars

\* C17 witness: a denial that lists two approved roles
C17_Witness ==
    /\ result.op = "validate_token"
    /\ result.outcome = "raised"
    /\ result.error.status = <<403>>
    /\ result.error.detail = <<AccessDenied, "kbase_user", "researcher">>
    /\ kbase_auth.full_roles = {"KBASE_ADMIN"}

\* C18: whenever validate_token returns a KBaseUser, its admin_perm is FULL if
\* the user's custom roles share a role with the full-admin roles and NONE if
\* not; a user with an approved role and no full-admin role is returned with NONE.
C18_PrivilegeIffFullRole ==
    [][\A token \in NonEmptyTokens, token_resp \in OkTokenResponses, me_resp \in OkMeResponses :
          (/\ result'.op = "validate_token"
           /\ result'.outcome = "returned"
           /\ ValidateCall(token, token_resp, me_resp)) =>
              /\ Len(result'.value) = 1
              /\ (RolesOf(me_resp) \cap kbase_auth.full_roles # {}
                    => result'.value[1].admin_perm = AdminPermission.FULL)
              /\ (RolesOf(me_resp) \cap kbase_auth.full_roles = {}
                    => result'.value[1].admin_perm = AdminPermission.NONE)]_vars

\* C18 witness: with the approved roles kbase_user and researcher, a user
\* returned with admin_perm NONE
C18_Witness ==
    /\ result.op = "validate_token"
    /\ result.outcome = "returned"
    /\ kbase_auth.approved_roles = {"kbase_user", "researcher"}
    /\ result.value[1].admin_perm = AdminPermission.NONE
    /\ result.value[1].user = "alice"

\* C19 (as claimed): validate_token raises InvalidTokenError with status 401
\* whenever a lookup is answered with the invalid-token error and whenever the
\* identity lookup carries no principal id, whatever its role set.
C19_InvalidTokenAlways401 ==
    [][\A token \in NonEmptyTokens, case \in InvalidCredentialCases :
          (/\ result'.op = "validate_token"
           /\ ValidateCall(token, case[1], case[2])) =>
              /\ result'.outcome = "raised"
              /\ result'.error.type = "InvalidTokenError"
              /\ result'.error.status = <<401>>]_vars

\* C19 (amended): validate_token raises InvalidTokenError with status 401
\* whenever a lookup is answered with the invalid-token error, and whenever the
\* identity lookup carries no principal id and its role set holds an approved
\* role; when the identity lookup carries no principal id and its role set holds
\* no approved role, the 403 AuthenticationError is raised instead.
C19_InvalidToken401UnlessDenied ==
    [][\A token \in NonEmptyTokens, case \in InvalidCredentialCases :
          (/\ result'.op = "validate_token"
           /\ ValidateCall(token, case[1], case[2])) =>
              /\ result'.outcome = "raised"
              /\ IF /\ case[2] \in NoPrincipalResponses
                    /\ RolesOf(case[2]) \cap kbase_auth.approved_roles = {}
                 THEN /\ result'.error.type = "AuthenticationError"
                      /\ result'.error.status = <<403>>
                 ELSE /\ result'.error.type = "InvalidTokenError"
                      /\ result'.error.status = <<401>>]_vars

\* C19 witness: the invalid-token error answered by the second lookup
C19_Witness ==
    /\ result.op = "validate_token"
    /\ result.outcome = "raised"
    /\ result.error = Exc("InvalidTokenError", <<401>>,
                          <<"KBase auth server reported token is invalid.">>)
    /\ calls = <<TokenGet, MeGet>>

\* C20 (as claimed): when a lookup is answered with a status other than 200 and
\* the answer is not the invalid-token error (a body that is not JSON, a JSON
\* error with another code, a JSON body without the error structure),
\* validate_token raises IOError.
C20_OtherErrorsAreIOError ==
    [][\A token \in NonEmptyTokens, case \in OtherErrorCases :
          (/\ result'.op = "validate_token"
           /\ ValidateCall(token, case[1], case[2])) =>
              /\ result'.outcome = "raised"
              /\ result'.error.type = "IOError"]_vars

-----------------------------------------------------------------------------
(* C21 - C30 *)

\* the selection keys that are no key of the tier table
UnknownKeys == SelectionKeys \ DOMAIN PROFILES

\* C21: for every selection key that is no key of the tier table (a missing key
\* included), from_profile returns without raising, and the profile it returns
\* is one and the same for all such keys.
C21_UnknownKeysGetOneDefault ==
    [][\A k \in UnknownKeys :
          (result'.op = "from_profile" /\ FromProfileCall(k))
          => /\ result'.outcome = "returned"
             /\ Len(result'.value) = 2
             /\ \A other \in UnknownKeys :
                    /\ from_profile(other).exc = NoExc
                    /\ from_profile(other).value = <<result'.value[2]>>]_vars

C21_Witness ==
    /\ result.op = "from_profile"
    /\ result.outcome = "returned"
    /\ result.value[1] = None

\* C22 as claimed: the unknown key "mystery-tier" resolves to the large profile.
C22_MysteryTierIsLarge ==
    (result.op = "from_profile" /\ result.value[1] = "mystery-tier")
    => /\ result.outcome = "returned"
       /\ result.value[2] = PROFILES["large"]

\* C22: with the tier table {small, medium, large}, the unknown key
\* "mystery-tier" resolves to the small profile, the tier from_profile falls
\* back to.
C22_MysteryTierIsSmall ==
    (result.op = "from_profile" /\ result.value[1] = "mystery-tier")
    => /\ result.outcome = "returned"
       /\ result.value[2] = PROFILES["small"]
       /\ result.value[2] = ClusterDefaults(1, 1, "2GiB", 1, "1GiB")
       /\ DOMAIN PROFILES = {"small", "medium", "large"}

C22_Witness ==
    /\ result.op = "from_profile"
    /\ result.value[1] = "mystery-tier"
    /\ result.outcome = "returned"

DefaultVariables ==
    {"DEFAULT_WORKER_COUNT", "DEFAULT_WORKER_CORES", "DEFAULT_WORKER_MEMORY",
     "DEFAULT_MASTER_CORES", "DEFAULT_MASTER_MEMORY"}

\* the ClusterDefaults the test sets through the five variables
AllFiveSet(osenv) ==
    /\ DefaultVariables \subseteq DOMAIN osenv
    /\ osenv["DEFAULT_WORKER_COUNT"] = <<"5">>

\* C28: with none of the DEFAULT_* variables set, from_environment, and a
\* manager's _build_cluster_config called with no arguments, yield the declared
\* defaults of ClusterDefaults (2, 1, "10GiB", 1, "2GiB"); with all five
\* variables set from_environment yields exactly their values.
C28_EnvironmentDefaultsAreDeclared ==
    /\ (/\ result.op = "from_environment"
        /\ result.value[1] = <<>>
        /\ DefaultVariables \cap DOMAIN os_environ = {})
       => /\ result.outcome = "returned"
          /\ result.value[2] = DeclaredDefaults
    /\ (/\ result.op = "build_cluster_config"
        /\ result.value[1] = NoArguments
        /\ "SPARK_CLUSTER_MANAGER_API_URL" \in DOMAIN os_environ
        /\ DefaultVariables \cap DOMAIN os_environ = {})
       => /\ result.outcome = "returned"
          /\ result.value[2] = DeclaredDefaults
    /\ (/\ result.op = "from_environment"
        /\ result.value[1] = <<>>
        /\ AllFiveSet(os_environ))
       => /\ result.outcome = "returned"
          /\ result.value[2] = ClusterDefaults(5, 3, "15GiB", 2, "3GiB")

\* the keys the claim lets set_governance_credentials touch
FourKeys == {"MINIO_ACCESS_KEY", "MINIO_SECRET_KEY", "MINIO_ENDPOINT", "MINIO_SECURE"}

FiveKeys == FourKeys \cup {"MINIO_CONFIG_ERROR"}

\* the keys whose presence or value differs between two dicts
Touched(before, after) ==
    {k \in DOMAIN before \cup DOMAIN after :
        ~(k \in DOMAIN before /\ k \in DOMAIN after /\ before[k] = after[k])}

\* C25 (fails): set_governance_credentials touches only the four MINIO_* keys
\* and MINIO_CONFIG_ERROR of the pod environment; from an empty environment the
\* result is exactly the four keys on success and exactly the five keys on
\* failure, and every other key keeps its value.
C25_OnlyFiveKeysTouched ==
    (result.op = "set_governance_credentials" /\ result.outcome = "returned")
    => /\ Touched(pre_environment, environment) \subseteq FiveKeys
       /\ pre_environment = EmptyDict
          => DOMAIN environment = (IF ErrorRecords(log) = {} THEN FourKeys ELSE FiveKeys)

BraceTokens == {"{", "}"}

\* str.replace("{{", "{").replace("}}", "}") on a text of tokens
RECURSIVE Undouble(_)
Undouble(text) ==
    IF text = <<>> THEN <<>>
    ELSE IF Len(text) >= 2 /\ text[1] \in BraceTokens /\ text[2] = text[1]
    THEN <<text[1]>> \o Undouble(SubSeq(text, 3, Len(text)))
    ELSE <<text[1]>> \o Undouble(Tail(text))

\* every maximal run of one brace has an even length
RECURSIVE EvenBraceRuns(_)
EvenBraceRuns(text) ==
    IF text = <<>> THEN TRUE
    ELSE IF text[1] \in BraceTokens
    THEN Len(text) >= 2 /\ text[2] = text[1] /\ EvenBraceRuns(SubSeq(text, 3, Len(text)))
    ELSE EvenBraceRuns(Tail(text))

\* C30: every value written to MINIO_CREDS_JSON, on success and on denial, has
\* each brace of the JSON text doubled (every run of a brace is even), and
\* un-doubling the braces gives back exactly the JSON document serialized: the
\* credentials written by the same call, or the denial.
C30_CredsJsonBracesDoubled ==
    "MINIO_CREDS_JSON" \in DOMAIN environment =>
        LET text == environment["MINIO_CREDS_JSON"]
            document ==
                IF "MINIO_CONFIG_ERROR" \in DOMAIN environment
                THEN [access_key |-> "", secret_key |-> "", endpoint |-> "", secure |-> FALSE,
                      error |-> environment["MINIO_CONFIG_ERROR"]]
                ELSE [access_key |-> environment["MINIO_ACCESS_KEY"],
                      secret_key |-> environment["MINIO_SECRET_KEY"],
                      endpoint |-> environment["MINIO_ENDPOINT"],
                      secure |-> (environment["MINIO_SECURE"] = "True"),
                      error |-> None]
        IN  /\ EvenBraceRuns(text)
            /\ Undouble(text) = JsonDumps(document)
            /\ text # JsonDumps(document)

\* a credential holding braces was written
C30_Witness ==
    /\ result.op = "set_governance_credentials"
    /\ result.outcome = "returned"
    /\ ErrorRecords(log) = {}
    /\ environment["MINIO_ACCESS_KEY"] = "k{1}"
    /\ SubSeq(environment["MINIO_CREDS_JSON"], 1, 2) = <<"{", "{">>

\* the sessions that hold a token
TokenAuthStates == {a \in AuthStates : HasToken(a)}

\* a pre_spawn_hook step of a session with a token on these inputs
PreSpawnStep(auth_state, gov_resp, sel) ==
    \E create_resp \in (IF BuildsManager(os_environ) THEN CreateResponses ELSE {Unused}) :
        Finish("pre_spawn_hook",
               pre_spawn_hook(environment, os_environ, auth_state, gov_resp,
                              sel[1], sel[2], create_resp), None)

\* the keys the provisioning steps write
ProvisioningKeys == FiveKeys \cup {"MINIO_CREDS_JSON", "SPARK_MASTER_URL"}

\* in e, every key of the profile carries the provisioning result's value where
\* the provisioning wrote the key, and the profile's value otherwise
Layered(e, profile_env, provisioned) ==
    \A k \in DOMAIN profile_env :
        /\ k \in DOMAIN e
        /\ e[k] = (IF k \in ProvisioningKeys \cap DOMAIN provisioned
                   THEN provisioned[k] ELSE profile_env[k])

\* C23 (fails): the pod environment is layered base < profile < provisioning
\* results < error markers: after a pre_spawn_hook that ran the provisioning, a
\* key set by the profile and by a provisioning result carries the provisioning
\* result's value, and a key set by the base configuration and by the profile
\* carries the profile's value, in spawner.environment and in the environment the
\* hook merges for the cluster manager.
C23_LaterLayerWins ==
    [][(result'.op = "pre_spawn_hook" /\ ProvisioningRan') =>
          \A a \in TokenAuthStates, gov_resp \in GovResponses, sel \in ProfileSelections :
              PreSpawnStep(a, gov_resp, sel) =>
                  LET profile_env == get_profile_environment(sel[1], sel[2])
                      provisioned ==
                          set_governance_credentials(environment, os_environ, gov_resp).environment
                  IN  /\ Layered(environment', profile_env, provisioned)
                      /\ Layered(merged_environment(provisioned, profile_env),
                                 profile_env, provisioned)]_vars

\* C24 (fails): a non-skipped pre_spawn_hook either fails in the cluster
\* creation, or completes with every environment variable the selected profile
\* declares present in spawner.environment.
C24_ProfileVariablesInPodEnvironment ==
    [][(result'.op = "pre_spawn_hook" /\ ProvisioningRan') =>
          \A a \in TokenAuthStates, gov_resp \in GovResponses, sel \in ProfileSelections :
              PreSpawnStep(a, gov_resp, sel) =>
                  \/ result'.outcome = "raised" /\ ClusterCreate \in Range(calls')
                  \/ /\ result'.outcome = "returned"
                     /\ DOMAIN get_profile_environment(sel[1], sel[2])
                          \subseteq DOMAIN environment']_vars

\* an entry has the form key=value:effect: an "=" comes before the first ":"
WellFormed(e) ==
    \E i, j \in DOMAIN e :
        /\ i < j
        /\ e[i] = "="
        /\ e[j] = ":"
        /\ \A m \in 1..(j - 1) : e[m] # ":"

\* the toleration a well-formed entry stands for: the key ends at its first "=",
\* the value at its first ":"
TolerationOf(e) ==
    LET i == CHOOSE i \in DOMAIN e : e[i] = "=" /\ \A m \in 1..(i - 1) : e[m] # "="
        j == CHOOSE j \in DOMAIN e : e[j] = ":" /\ \A m \in 1..(j - 1) : e[m] # ":"
    IN  [key |-> SubSeq(e, 1, i - 1), operator |-> "Equal",
         value |-> SubSeq(e, i + 1, j - 1), effect |-> SubSeq(e, j + 1, Len(e))]

\* an entry without the blanks around it
Trimmed(e) ==
    LET inside == {i \in DOMAIN e : e[i] \notin Whitespace}
    IN  IF inside = {} THEN <<>>
        ELSE SubSeq(e, CHOOSE i \in inside : \A k \in inside : i <= k,
                       CHOOSE i \in inside : \A k \in inside : i >= k)

ValidEntry(e) == WellFormed(Trimmed(e))

InvalidEntry(e) == Trimmed(e) # <<>> /\ ~WellFormed(Trimmed(e))

\* the entries the toleration string of os.environ was joined from
EntriesOfEnviron ==
    CHOOSE entries \in EntryLists : TolerationString[entries] = os_environ["BERDL_TOLERATIONS"]

\* C26: parse_tolerations_from_env returns one toleration (operator Equal, with
\* the entry's key, value and effect) per valid key=value:effect entry, in input
\* order, and logs exactly one warning per invalid non-blank entry; invalid
\* entries do not keep valid ones from being applied, blanks around an entry
\* are ignored, and blank entries give neither a toleration nor a warning.
C26_OneTolerationPerValidEntry ==
    result.op = "parse_tolerations_from_env" =>
        LET valid == SelectSeq(EntriesOfEnviron, ValidEntry)
            invalid == SelectSeq(EntriesOfEnviron, InvalidEntry)
        IN  /\ result.outcome = "returned"
            /\ result.value = [i \in DOMAIN valid |-> TolerationOf(Trimmed(valid[i]))]
            /\ log = [i \in DOMAIN invalid |->
                        LogRec("warning", "Invalid toleration format", Trimmed(invalid[i]))]

\* an invalid entry came before a valid one that carries blanks around it
C26_Witness ==
    /\ result.op = "parse_tolerations_from_env"
    /\ os_environ["BERDL_TOLERATIONS"]
         = <<"b", "a", "d", ",", " ", "c", "=", "d", ":", "P", " ">>
    /\ Len(log) = 1
    /\ result.value = <<V1Toleration(<<"c">>, <<"d">>, <<"P">>)>>

\* the tolerations of a pod, as a list
ListOf(tolerations) == IF tolerations = <<>> THEN <<>> ELSE tolerations[1]

\* C27 (fails): modify_pod_hook appends the parsed tolerations to the pod:
\* tolerations already on the pod are kept, and when BERDL_TOLERATIONS is unset,
\* empty or has no valid entry the pod's tolerations are left as they were.
C27_TolerationsAppended ==
    result.op = "modify_pod_hook" =>
        LET parsed == IF "BERDL_TOLERATIONS" \in DOMAIN os_environ
                      THEN SelectSeq(EntriesOfEnviron, ValidEntry) ELSE <<>>
        IN  IF parsed = <<>>
            THEN pod.tolerations = result.value
            ELSE ListOf(pod.tolerations)
                   = ListOf(result.value)
                     \o [i \in DOMAIN parsed |-> TolerationOf(Trimmed(parsed[i]))]

\* the remote calls a failure is about: the handler ended with an exception, or
\* logged an error
FailureSeen == result.outcome = "raised" \/ ErrorRecords(log) # {}

\* C29: within one invocation no component retries: no remote call (governance
\* GET, cluster create, cluster delete, identity lookup, Service read, patch,
\* create or delete) occurs twice among the calls of one operation call, after a
\* failure as little as after a success.
C29_NoCallIssuedTwice ==
    \A i, j \in DOMAIN calls : i < j => calls[i] # calls[j]

\* a cluster creation that failed, having been requested once
C29_Witness ==
    /\ result.op = "start_spark_cluster"
    /\ FailureSeen
    /\ calls = <<ClusterCreate>>

-----------------------------------------------------------------------------
(* C31 - C40 *)

\* C39: when start_spark_cluster fails (the create raises, or the response has
\* no master address) the pod environment is exactly as the call found it: no
\* SPARK_MASTER_URL is added, and one left by an earlier spawn is neither
\* changed nor removed.
C39_FailedStartLeavesEnvironment ==
    (result.op = "start_spark_cluster" /\ result.outcome = "raised")
    => /\ environment = pre_environment
       /\ Get(environment, "SPARK_MASTER_URL", None)
            = Get(pre_environment, "SPARK_MASTER_URL", None)

\* a start that failed on an environment holding the address of an earlier spawn
C39_Witness ==
    /\ result.op = "start_spark_cluster"
    /\ result.outcome = "raised"
    /\ "SPARK_MASTER_URL" \in DOMAIN pre_environment
    /\ environment = pre_environment

\* C40 (fails): post_stop_hook never raises to the host runtime, whatever the
\* session state (a missing auth state or token included) and whatever its
\* remote calls give.
C40_PostStopNeverRaises ==
    result.op = "post_stop_hook" => result.outcome = "returned"

\* the documents json.dumps may have been given
CredsDocuments ==
    [access_key : CredStrings, secret_key : CredStrings,
     endpoint : {"", RequiredEnviron["MINIO_ENDPOINT_URL"]},
     secure : BOOLEAN, error : {None, FixedErrorMessage}]

\* json.loads of the value of MINIO_CREDS_JSON with its braces un-doubled
CredsDocumentOf(env) ==
    CHOOSE d \in CredsDocuments : JsonDumps(d) = Undouble(env["MINIO_CREDS_JSON"])

\* a flag value that reads as true whatever its letter case, as the hooks read
\* BERDL_SKIP_SPAWN_HOOKS
DenotesTrue(flag) == flag \in {"True", "true", "TRUE"}

\* C36 (fails): after every set_governance_credentials call the document in
\* MINIO_CREDS_JSON agrees with the variables the call wrote: access_key,
\* secret_key and endpoint equal MINIO_ACCESS_KEY, MINIO_SECRET_KEY and
\* MINIO_ENDPOINT, error is null exactly when MINIO_CONFIG_ERROR is absent, and
\* secure is true exactly when MINIO_SECURE denotes true, for every value of
\* MINIO_SECURE_FLAG.
C36_CredsDocumentAgrees ==
    (result.op = "set_governance_credentials" /\ result.outcome = "returned")
    => /\ "MINIO_CREDS_JSON" \in DOMAIN environment
       /\ \E d \in CredsDocuments : JsonDumps(d) = Undouble(environment["MINIO_CREDS_JSON"])
       /\ LET d == CredsDocumentOf(environment)
          IN  /\ d.access_key = environment["MINIO_ACCESS_KEY"]
              /\ d.secret_key = environment["MINIO_SECRET_KEY"]
              /\ d.endpoint = environment["MINIO_ENDPOINT"]
              /\ (d.error = None) <=> ("MINIO_CONFIG_ERROR" \notin DOMAIN environment)
              /\ d.secure <=> DenotesTrue(environment["MINIO_SECURE"])

\* the lookups that did not succeed: no answer, an answer that is not 200, or a
\* 200 answer that is not JSON
FailedTokenResponses == {r \in TokenResponses : ~IsOk(r)}

FailedMeResponses == {r \in MeResponses : ~IsOk(r)}

\* C32: validate_token returns a KBaseUser only when the token lookup and the
\* identity lookup both succeeded; the token lookup is requested first, and when
\* it fails validate_token raises with the identity lookup never requested.
C32_BothLookupsRequired ==
    [][/\ \/ result'.op # "validate_token"
          \/ /\ result'.outcome = "raised"
             /\ result'.value = <<>>
             /\ calls' = <<TokenGet>>
          \/ \A token \in NonEmptyTokens, token_resp \in FailedTokenResponses,
                me_resp \in MeResponses : ~ValidateCall(token, token_resp, me_resp)
       /\ \/ result'.op # "validate_token"
          \/ /\ result'.outcome = "raised"
             /\ result'.value = <<>>
             /\ calls' = <<TokenGet, MeGet>>
          \/ \A token \in NonEmptyTokens, token_resp \in OkTokenResponses,
                me_resp \in FailedMeResponses : ~ValidateCall(token, token_resp, me_resp)
       /\ (result'.op = "validate_token" /\ result'.outcome = "returned") =>
              /\ result'.value # <<>>
              /\ calls' = <<TokenGet, MeGet>>
       /\ (result'.op = "validate_token" /\ calls' # <<>>) => Head(calls') = TokenGet]_vars

\* C32 witness: the token lookup was answered with an error and validate_token
\* raised after that one request
C32_Witness ==
    /\ result.op = "validate_token" /\ result.outcome = "raised"
    /\ result.error.type = "IOError"
    /\ calls = <<TokenGet>>

\* what the normalization makes of one character of a display label
LabelImage(c) ==
    IF c \in {" ", "+"} THEN <<"-">>
    ELSE IF c \in {"(", ")", ",", ":"} THEN <<>>
    ELSE IF c \in DOMAIN UpperToLower THEN <<UpperToLower[c]>>
    ELSE <<c>>

\* the normalized label: every character replaced by its image, a "-" dropped
\* where a "-" precedes it
RECURSIVE NormalizedLabel(_)
NormalizedLabel(label) ==
    IF label = <<>> THEN <<>>
    ELSE LET before == NormalizedLabel(SubSeq(label, 1, Len(label) - 1))
             image == LabelImage(label[Len(label)])
         IN  IF image = <<"-">> /\ before # <<>> /\ before[Len(before)] = "-"
             THEN before ELSE before \o image

\* the environment a profile declares, empty when it declares none
DeclaredEnvironment(profile) ==
    IF "environment" \in DOMAIN profile.kubespawner_override
    THEN profile.kubespawner_override["environment"] ELSE EmptyDict

\* the positions of the profiles whose normalized label is the selection key
MatchingProfiles(profile_list, user_options) ==
    {i \in 1..Len(profile_list) :
        /\ "profile" \in DOMAIN user_options
        /\ NormalizedLabel(profile_list[i].display_name) = user_options["profile"]}

\* C33: _get_profile_environment returns the environment of the first profile,
\* in list order, whose normalized display label equals the selection key; with
\* no key or no matching label it returns that of the first profile of the list,
\* and with an empty list the empty environment.  It returns for every key.
C33_FirstNormalizedMatch ==
    result.op = "get_profile_environment" =>
        LET profile_list == result.value[1]
            user_options == result.value[2]
            profile_environment == result.value[3]
            matching == MatchingProfiles(profile_list, user_options)
        IN  /\ result.outcome = "returned"
            /\ profile_list = <<>> => profile_environment = EmptyDict
            /\ (profile_list # <<>> /\ matching = {}) =>
                   profile_environment = DeclaredEnvironment(profile_list[1])
            /\ matching # {} =>
                   \E i \in matching :
                       /\ \A j \in matching : i <= j
                       /\ profile_environment = DeclaredEnvironment(profile_list[i])

\* C33 witness: the key is generated by the second and by the third label, whose
\* spelling differs, and the environment of the second profile is returned
C33_Witness ==
    /\ result.op = "get_profile_environment"
    /\ result.value[1] # <<>>
    /\ MatchingProfiles(result.value[1], result.value[2]) = {2, 3}
    /\ result.value[3] = [PROFILE_TIER |-> "second"]

\* the URL that names a Service of a namespace on the Spark Connect port
UrlOf(name, namespace) == <<"sc://">> \o name \o <<".", namespace, ":15002">>

\* C31: the SPARK_CONNECT_URL computed for a user and namespace is
\* sc://<name>.<namespace>:15002 with <name> the Service name: the name is
\* "jupyter-" and the sanitized user name, and every Kubernetes call that a
\* create_user_notebook_service or delete_user_notebook_service of the same user
\* and namespace issues addresses the Service of that URL.
C31_UrlNamesTheService ==
    [][/\ result'.op = "get_spark_connect_url" =>
              result'.value[3] = UrlOf(ServiceName(result'.value[1]), result'.value[2])
       /\ \A username \in ServiceUsers, namespace \in Namespaces :
              (/\ result.op = "get_spark_connect_url"
               /\ result.value[1] = username /\ result.value[2] = namespace
               /\ result'.op \in {"create_user_notebook_service", "delete_user_notebook_service"}
               /\ \E k8s \in K8sBehaviours :
                      \/ CreateServiceCall(username, namespace, k8s)
                      \/ DeleteServiceCall(username, namespace, k8s)) =>
                  \A i \in DOMAIN calls' :
                      UrlOf(calls'[i].name, calls'[i].namespace) = result.value[3]]_vars

\* C31 witness: the URL of a user whose name is rewritten, computed while the
\* user's Service is bound under the name the URL holds
C31_Witness ==
    /\ result.op = "get_spark_connect_url"
    /\ result.value[1] = <<"a", "_", "b">>
    /\ result.value[3] = <<"sc://", "jupyter-", "a", "-", "b", ".", "jupyterhub-dev", ":15002">>
    /\ <<"jupyterhub-dev", <<"jupyter-", "a", "-", "b">>>> \in DOMAIN services

\* the characters of a Service name, its prefix token spelled out
NameCharacters(name) == <<"j", "u", "p", "y", "t", "e", "r", "-">> \o Tail(name)

\* at most 253 characters, the last one a lowercase letter or a digit
ValidServiceName(name) ==
    LET chars == NameCharacters(name)
    IN  /\ Len(chars) <= 253
        /\ chars[Len(chars)] \in LowerAlnum

\* C37 (as claimed): for every user name, also one that sanitizes to the empty
\* string or to a name of K8S_NAME_LIMIT characters, the Service name "jupyter-"
\* followed by the sanitized user name, which the URL of the user holds and bind
\* and unbind address, has at most 253 characters and ends in a letter or digit.
C37_ServiceNameIsDns1123 ==
    result.op = "get_spark_connect_url" =>
        /\ UrlOf(ServiceName(result.value[1]), result.value[2]) = result.value[3]
        /\ ValidServiceName(ServiceName(result.value[1]))

\* the Services bound for a user other than this one: the selector of a bound
\* Service holds the name of its user
BoundForOthers(svcs, username) ==
    {key \in DOMAIN svcs :
        /\ UsernameLabel \in DOMAIN svcs[key].selector
        /\ svcs[key].selector[UsernameLabel] \in ServiceUsers \ {username}}

\* C35 (as claimed): two distinct user names never derive the same Service
\* name, and a create_user_notebook_service or delete_user_notebook_service of
\* one user leaves every Service bound for another user as it was.
C35_NoSharedServiceName ==
    [][\A username \in ServiceUsers, namespace \in Namespaces, k8s \in K8sBehaviours :
          (/\ result'.op \in {"create_user_notebook_service", "delete_user_notebook_service"}
           /\ \/ CreateServiceCall(username, namespace, k8s)
              \/ DeleteServiceCall(username, namespace, k8s)) =>
              /\ \A other \in ServiceUsers \ {username} : ServiceName(other) # ServiceName(username)
              /\ \A key \in BoundForOthers(services, username) :
                     key \in DOMAIN services' /\ services'[key] = services[key]]_vars

\* the selector selects a pod with these labels: every label of the selector is
\* a label of the pod, with the same value
Selects(selector, labels) ==
    \A k \in DOMAIN selector : k \in DOMAIN labels /\ labels[k] = selector[k]

\* the Services that create_user_notebook_service has written for this user
ServicesOf(username) ==
    {key \in DOMAIN services :
        /\ UsernameLabel \in DOMAIN services[key].selector
        /\ services[key].selector[UsernameLabel] = username}

\* C38: after ensure_pod_labels_for_service the labels of the pod hold every
\* label of the selector that create_user_notebook_service builds for the same
\* user, so that a Service written for the user selects the pod, and every label
\* the pod had under another key is kept with its value.
C38_SelectorLabelsOnPod ==
    result.op = "ensure_pod_labels_for_service" =>
        LET username == result.value[1]
            before == IF result.value[2] = <<>> THEN EmptyDict ELSE result.value[2][1]
            selector == DesiredService(username).selector
        IN  /\ pod.labels # <<>>
            /\ Selects(selector, pod.labels[1])
            /\ \A key \in ServicesOf(username) : Selects(services[key].selector, pod.labels[1])
            /\ \A k \in (DOMAIN before) \ (DOMAIN selector) :
                   k \in DOMAIN pod.labels[1] /\ pod.labels[1][k] = before[k]
            /\ DOMAIN pod.labels[1] = (DOMAIN before) \cup (DOMAIN selector)

\* C38 witness: a pod that had another app label and a team label, labelled for
\* a user whose Service is written: the app label is the selector's, the team
\* label is kept
C38_Witness ==
    /\ result.op = "ensure_pod_labels_for_service"
    /\ result.value[2] = <<("app" :> "jupyterhub") @@ ("team" :> "kbase")>>
    /\ ServicesOf(result.value[1]) # {}
    /\ pod.labels[1]["app"] = "berdl-notebook"
    /\ pod.labels[1]["team"] = "kbase"

\* both callers have finished
BothDone == binders # NoBinders /\ \A c \in Callers : binders[c].pc = "done"

\* the Services under the name derived for the callers' user, in their namespace
DerivedServices ==
    {key \in DOMAIN services : key = BinderKey(binders[1])}

\* C34: with the cluster answering from its store, under every interleaving of
\* the requests of two calls of create_user_notebook_service for one user and
\* namespace, also when both read not-found before either creates, no caller
\* raises, and when both have finished exactly one Service exists under the
\* derived name, with the desired selector and ports.
C34_RacingBindsLeaveOneService ==
    binders # NoBinders =>
        /\ \A c \in Callers : binders[c].exc = NoExc
        /\ result.outcome = "returned"
        /\ BothDone =>
               /\ Cardinality(DerivedServices) = 1
               /\ services[BinderKey(binders[1])] = DesiredService(binders[1].username)

\* C34 witness: both callers read not-found and both requested the create; the
\* second create was refused, logged and not raised
C34_Witness ==
    /\ BothDone
    /\ Len(calls) = 4
    /\ calls[1].api = ServiceRead /\ calls[2].api = ServiceRead
    /\ calls[3].api = ServiceCreate /\ calls[4].api = ServiceCreate
    /\ ErrorRecords(log) # {}
    /\ Cardinality(DerivedServices) = 1

====
